---- MODULE Spec2Model ----
(***************************************************************************)
(* Model of the data-quality rule library (src/src/quality_checks.py), the *)
(* batch aggregator (src/scripts/calc_flags_full.py) and the dashboard     *)
(* script (src/app/main.py) with its session configuration                 *)
(* (src/app/utils/config.py).                                              *)
(*                                                                         *)
(* A DataFrame is a record [rows, dtypes]: rows is the sequence of rows in *)
(* storage order, each row a function from column name to value; dtypes    *)
(* maps each column that is present to its pandas dtype.  Datasets come    *)
(* from pd.read_csv, so the index is the RangeIndex 0 .. n-1: the row at   *)
(* position p (1-based in the sequence) has the label p-1.                 *)
(*                                                                         *)
(* The result of a rule is a record [kind, index, records]: kind is        *)
(* "frame" for a returned DataFrame and "KeyError" when the rule raises on *)
(* an absent column; index is the returned frame's index, in order;        *)
(* records holds the rows of a synthetic report (missing dates, schema     *)
(* issues) and is empty for a row subset of the dataset.                   *)
(***************************************************************************)
EXTENDS Integers, Sequences, FiniteSets, TLC

(***************************************************************************)
(* Bounds of the model.                                                    *)
(***************************************************************************)
\* longest dataset the rule library is run on, and the number of its dates
MaxRows == 3
NumDates == 3
\* longest dataset of a dashboard session or batch run
MaxSessionRows == 2
\* largest price of the one-row price family
MaxPrice == 2
\* number of widget interactions followed in one dashboard session
MaxEdits == 1
\* number of sessions of one process, one after the other
MaxSessions == 2
\* number of prompts submitted to the chat in one session
MaxTurns == 2
\* number of leading API requests whose outcome is chosen freely
MaxOutcomes == 4
\* longest selection of checks whose evaluation order is varied
MaxSelected == 2

(***************************************************************************)
(* Generic helpers.                                                        *)
(***************************************************************************)
Range(s) == {s[i] : i \in DOMAIN s}

Abs(x) == IF x < 0 THEN -x ELSE x

RECURSIVE SumSeq(_)
SumSeq(s) == IF s = << >> THEN 0 ELSE Head(s) + SumSeq(Tail(s))

\* the values of a sequence of integers in ascending order (ties keep their order)
SortedValues(s) ==
    LET n == Len(s)
        rank(i) == Cardinality({j \in 1..n : s[j] < s[i] \/ (s[j] = s[i] /\ j < i)}) + 1
    IN  [k \in 1..n |-> s[CHOOSE i \in 1..n : rank(i) = k]]

\* twice Series.median() of a non-empty series (the mean of the two middle
\* values when the length is even)
Median2(s) ==
    LET v == SortedValues(s)
        n == Len(s)
    IN  IF n % 2 = 1 THEN 2 * v[(n + 1) \div 2] ELSE v[n \div 2] + v[n \div 2 + 1]

\* four times Series.quantile(num/4) of a non-empty series (pandas' default
\* linear interpolation between the two neighbouring order statistics)
Quantile4(s, num) ==
    LET v == SortedValues(s)
        n == Len(s)
        lo == (num * (n - 1)) \div 4
        r == (num * (n - 1)) % 4
    IN  IF r = 0 THEN 4 * v[lo + 1] ELSE 4 * v[lo + 1] + r * (v[lo + 2] - v[lo + 1])

(***************************************************************************)
(* float64 arithmetic.  A non-negative double is kept in fixed point:      *)
(* [int, frac], with value int + SUM frac[i] * 2^-i.  Prices and percent   *)
(* thresholds are small integers, so every quotient the rules form is at   *)
(* least 2^-(FracBits - MantissaBits) and its 53 significant bits fit.     *)
(***************************************************************************)
MantissaBits == 53
FracBits == 64

RECURSIVE BitLen(_)
BitLen(n) == IF n = 0 THEN 0 ELSE 1 + BitLen(n \div 2)

\* 2^i modulo b, by repeated squaring
RECURSIVE Pow2Mod(_, _)
Pow2Mod(i, b) ==
    IF i = 0 THEN 1 % b
    ELSE LET h == Pow2Mod(i \div 2, b)
         IN  (h * h * (IF i % 2 = 1 THEN 2 ELSE 1)) % b

\* the remainder of the long division of r by b after k bits, 0 <= r < b
DivRem(r, b, k) == (r * Pow2Mod(k, b)) % b

\* the first k bits after the binary point of r / b, for 0 <= r < b
DivBits(r, b, k) == [i \in 1..k |-> IF 2 * DivRem(r, b, i - 1) >= b THEN 1 ELSE 0]

\* x + 2^-k, for a value x whose bits after position k are zero
AddUlp(x, k) ==
    IF \A i \in 1..k : x.frac[i] = 1
    THEN [int |-> x.int + 1, frac |-> [i \in 1..FracBits |-> 0]]
    ELSE LET j == CHOOSE i \in 1..k : x.frac[i] = 0 /\ \A m \in (i + 1)..k : x.frac[m] = 1
         IN  [int |-> x.int,
              frac |-> [i \in 1..FracBits |->
                          IF i < j THEN x.frac[i] ELSE IF i = j THEN 1 ELSE 0]]

\* round to nearest, ties to even, at 53 significant bits; sticky tells
\* whether the exact value has bits beyond frac
Round53(int, frac, sticky) ==
    IF int = 0 /\ \A i \in 1..FracBits : frac[i] = 0
    THEN [int |-> 0, frac |-> frac]
    ELSE LET lead == CHOOSE i \in 1..FracBits : frac[i] = 1 /\ \A m \in 1..(i - 1) : frac[m] = 0
             keep == IF int > 0 THEN MantissaBits - BitLen(int) ELSE lead + MantissaBits - 1
             guard == IF keep + 1 <= FracBits THEN frac[keep + 1] ELSE 0
             rest == sticky \/ \E i \in (keep + 2)..FracBits : frac[i] = 1
             last == IF keep = 0 THEN int % 2 ELSE frac[keep]
             trunc == [int |-> int,
                       frac |-> [i \in 1..FracBits |-> IF i <= keep THEN frac[i] ELSE 0]]
         IN  IF guard = 1 /\ (rest \/ last = 1) THEN AddUlp(trunc, keep) ELSE trunc

\* the double a / b of two integers a >= 0, b > 0
Quotient(a, b) ==
    Round53(a \div b, DivBits(a % b, b, FracBits), DivRem(a % b, b, FracBits) # 0)

\* the double |q - 1| of a double q >= 0
AbsMinusOne(q) ==
    IF q.int >= 1 THEN [int |-> q.int - 1, frac |-> q.frac]
    ELSE IF \A i \in 1..FracBits : q.frac[i] = 0 THEN [int |-> 1, frac |-> q.frac]
    ELSE LET j == CHOOSE i \in 1..FracBits : q.frac[i] = 1 /\ \A m \in (i + 1)..FracBits : q.frac[m] = 0
         IN  Round53(0, [i \in 1..FracBits |->
                            IF i < j THEN 1 - q.frac[i] ELSE IF i = j THEN 1 ELSE 0], FALSE)

\* the double q + 1 of a double q >= 0
PlusOne(q) == Round53(q.int + 1, q.frac, FALSE)

\* x > y for two doubles
Greater(x, y) ==
    \/ x.int > y.int
    \/ /\ x.int = y.int
       /\ \E i \in 1..FracBits :
             /\ x.frac[i] = 1 /\ y.frac[i] = 0
             /\ \A m \in 1..(i - 1) : x.frac[m] = y.frac[m]

(***************************************************************************)
(* DataFrame access.                                                       *)
(***************************************************************************)
Columns(df) == DOMAIN df.dtypes

\* df.index: the RangeIndex of a frame read from CSV, in order
Index(df) == [p \in 1..Len(df.rows) |-> p - 1]

\* df.loc[label]
Row(df, label) == df.rows[label + 1]

\* df[mask].index: the labels of the rows a predicate selects, in row order
Where(df, Test(_)) == SelectSeq(Index(df), LAMBDA l : Test(Row(df, l)))

Frame(idx) == [kind |-> "frame", index |-> idx, records |-> << >>]

\* pd.DataFrame(records): a fresh frame with RangeIndex 0 .. len(records)-1
Report(recs) == [kind |-> "frame", index |-> [p \in 1..Len(recs) |-> p - 1], records |-> recs]

KeyError == [kind |-> "KeyError", index |-> << >>, records |-> << >>]

\* a rule that reads columns that are absent raises KeyError
Needs(df, cols, result) == IF cols \subseteq Columns(df) THEN result ELSE KeyError

\* the lexicographic order of the symbols (sort_values on the Symbol column)
SymRank(sym) == CASE sym = "CL" -> 1 [] sym = "NG" -> 2

\* df.sort_values(["Symbol", "Date"]).index: the labels ordered by Symbol,
\* then Date; rows with equal keys keep their storage order
SortedIndex(df) ==
    LET n == Len(df.rows)
        before(a, b) ==
            LET ra == Row(df, a)
                rb == Row(df, b)
            IN  \/ SymRank(ra["Symbol"]) < SymRank(rb["Symbol"])
                \/ /\ ra["Symbol"] = rb["Symbol"]
                   /\ \/ ra["Date"] < rb["Date"]
                      \/ (ra["Date"] = rb["Date"] /\ a < b)
        rank(a) == Cardinality({b \in 0..(n - 1) : before(b, a)}) + 1
    IN  [k \in 1..n |-> CHOOSE a \in 0..(n - 1) : rank(a) = k]

\* the label that precedes `label` within its Symbol group of the sorted
\* frame, or -1 for the first row of a group (groupby("Symbol").shift)
PrevInGroup(df, label) ==
    LET s == SortedIndex(df)
        k == CHOOSE i \in DOMAIN s : s[i] = label
    IN  IF k > 1 /\ Row(df, s[k - 1])["Symbol"] = Row(df, label)["Symbol"]
        THEN s[k - 1] ELSE -1

\* the labels of one Symbol group, in row order (df.groupby("Symbol"))
Group(df, sym) == Where(df, LAMBDA r : r["Symbol"] = sym)

\* the groups of df.groupby("Symbol"), in sorted key order
GroupKeys(df) ==
    LET syms == {df.rows[p]["Symbol"] : p \in DOMAIN df.rows}
        n == Cardinality(syms)
    IN  [k \in 1..n |-> CHOOSE s \in syms :
            Cardinality({t \in syms : SymRank(t) < SymRank(s)}) = k - 1]

\* pd.concat of the per-group frames: their indexes one after the other
RECURSIVE Concat(_)
Concat(frames) == IF frames = << >> THEN << >> ELSE Head(frames) \o Concat(Tail(frames))

\* df[column] restricted to the given labels, as a sequence of values
Values(df, labels, col) == [k \in DOMAIN labels |-> Row(df, labels[k])[col]]


(***************************************************************************)
(* The rule library (src/src/quality_checks.py).                           *)
(***************************************************************************)
\* df.duplicated(subset=["Date", "Symbol"], keep=...) at one label: with
\* keep "first" every occurrence after the first is marked, with "last"
\* every occurrence before the last, with "none" (keep=False) both
duplicated(df, keep, label) ==
    LET same(a, b) == /\ Row(df, a)["Date"] = Row(df, b)["Date"]
                      /\ Row(df, a)["Symbol"] = Row(df, b)["Symbol"]
        n == Len(df.rows)
        earlier == \E b \in 0..(n - 1) : b < label /\ same(b, label)
        later == \E b \in 0..(n - 1) : b > label /\ same(b, label)
    IN  CASE keep = "first" -> earlier
          [] keep = "last" -> later
          [] keep = "none" -> earlier \/ later

duplicated_rows_first(df) ==
    Needs(df, {"Date", "Symbol"},
          Frame(SelectSeq(Index(df), LAMBDA l : duplicated(df, "first", l))))

duplicated_rows(df) ==
    Needs(df, {"Date", "Symbol"},
          Frame(SelectSeq(Index(df), LAMBDA l : duplicated(df, "none", l))))

ohlc_integrity_violations(df) ==
    Needs(df, {"Low", "High", "Close", "Open"},
          Frame(Where(df, LAMBDA r : \/ r["Low"] > r["High"]
                                     \/ r["Close"] > r["High"]
                                     \/ r["Close"] < r["Low"]
                                     \/ r["Open"] > r["High"]
                                     \/ r["Open"] < r["Low"])))

\* the two index sequences (Volume == 0, Volume > 0) of the rows whose four
\* prices are identical
flatline_rows(df) ==
    LET flat == Where(df, LAMBDA r : /\ r["Open"] = r["High"]
                                     /\ r["Open"] = r["Low"]
                                     /\ r["Open"] = r["Close"])
    IN  << SelectSeq(flat, LAMBDA l : Row(df, l)["Volume"] = 0),
           SelectSeq(flat, LAMBDA l : Row(df, l)["Volume"] > 0) >>

FlatlineColumns == {"Open", "High", "Low", "Close", "Volume"}

stagnant_price(df) == Needs(df, FlatlineColumns, Frame(flatline_rows(df)[1]))

flat_price_anomaly(df, min_volume) ==
    Needs(df, FlatlineColumns,
          Frame(SelectSeq(flatline_rows(df)[2],
                          LAMBDA l : Row(df, l)["Volume"] >= min_volume)))

\* pd.Timestamp(n) / pd.to_datetime(n) of an integer: n nanoseconds after
\* the epoch.  A timestamp is [day, ns]: whole days since 1970-01-01 and the
\* nanoseconds within the day.  A day has 86 400 000 000 000 ns, more than
\* any integer Date key, so the day part of a converted key is 0.
Timestamp(n) == [day |-> 0, ns |-> n]

TsLeq(a, b) == a.day < b.day \/ (a.day = b.day /\ a.ns <= b.ns)

\* pd.date_range(start, end, freq="D"): start, start + 1 day, ... up to end
date_range(start, end) ==
    {t \in {[day |-> start.day + k, ns |-> start.ns] : k \in 0..(end.day - start.day)} :
        TsLeq(t, end)}

\* Timestamp.date(): the calendar day, as days since 1970-01-01
date(t) == t.day

\* the elements of a set of same-time timestamps as a sequence, by day
TsSeq(S) ==
    LET n == Cardinality(S)
    IN  [k \in 1..n |-> CHOOSE t \in S : Cardinality({u \in S : u.day < t.day}) = k - 1]

\* df["Symbol"].unique(): the symbols in order of first appearance
unique_symbols(df) ==
    LET first == SelectSeq(Index(df), LAMBDA l :
                    \A b \in 0..(Len(df.rows) - 1) :
                        b < l => Row(df, b)["Symbol"] # Row(df, l)["Symbol"])
    IN  [k \in DOMAIN first |-> Row(df, first[k])["Symbol"]]

missing_dates(df) ==
    LET dates == {df.rows[p]["Date"] : p \in DOMAIN df.rows}
        lo == CHOOSE d \in dates : \A e \in dates : d <= e
        hi == CHOOSE d \in dates : \A e \in dates : e <= d
        full_dates == date_range(Timestamp(lo), Timestamp(hi))
        symbols == unique_symbols(df)
        dates_present(sym) ==
            {Timestamp(df.rows[p]["Date"]) : p \in {q \in DOMAIN df.rows : df.rows[q]["Symbol"] = sym}}
        missing(sym) == TsSeq(full_dates \ dates_present(sym))
        recs(sym) == [k \in DOMAIN missing(sym) |->
                        [Symbol |-> sym, MissingDate |-> date(missing(sym)[k])]]
    IN  Needs(df, {"Symbol", "Date"},
              Report(Concat([k \in DOMAIN symbols |-> recs(symbols[k])])))

high_low_inversion_le(df) ==
    Needs(df, {"High", "Low"}, Frame(Where(df, LAMBDA r : r["High"] <= r["Low"])))

high_low_inversion(df) ==
    Needs(df, {"High", "Low"}, Frame(Where(df, LAMBDA r : r["High"] < r["Low"])))

\* df.select_dtypes("number").columns
numeric_cols(df) == {c \in Columns(df) : df.dtypes[c] \in {"int64", "float64"}}

negative_numeric(df) ==
    Frame(Where(df, LAMBDA r : \E c \in numeric_cols(df) : r[c] < 0))

\* close_pct_change.abs() > threshold for the Close p of the previous row
\* of the Symbol and the Close c of this one: pct_change is the double
\* c / p - 1, and threshold is the double threshold_pct / 100.  A previous
\* Close of 0 gives +-inf (flagged) or, for 0 / 0, NaN (not flagged).
pct_exceeds(p, c, threshold_pct) ==
    IF p = 0 THEN c # 0
    ELSE LET q == Quotient(Abs(c), Abs(p))
             change == IF (c < 0) = (p < 0) \/ c = 0 THEN AbsMinusOne(q) ELSE PlusOne(q)
         IN  Greater(change, Quotient(threshold_pct, 100))

pct_change_outliers(df, threshold_pct) ==
    Needs(df, {"Symbol", "Date", "Close"},
          Frame(SelectSeq(SortedIndex(df), LAMBDA l :
                    LET prev == PrevInGroup(df, l)
                    IN  /\ prev # -1
                        /\ pct_exceeds(Row(df, prev)["Close"], Row(df, l)["Close"], threshold_pct))))

\* the fences drawn inside the quartiles instead of outside
iqr_price_outliers_inward(df, multiplier2) ==
    LET keys == GroupKeys(df)
        outliers(sym) ==
            LET grp == Group(df, sym)
                close == Values(df, grp, "Close")
                q1 == Quantile4(close, 1)
                q3 == Quantile4(close, 3)
                iqr == q3 - q1
            IN  SelectSeq(grp, LAMBDA l :
                    \/ 8 * Row(df, l)["Close"] < 2 * q1 + multiplier2 * iqr
                    \/ 8 * Row(df, l)["Close"] > 2 * q3 - multiplier2 * iqr)
    IN  Needs(df, {"Symbol", "Close"},
              Frame(Concat([k \in DOMAIN keys |-> outliers(keys[k])])))

\* multiplier2 is twice the IQR multiplier (the slider offers 1.0, 1.5, 2.0, 3.0)
iqr_price_outliers(df, multiplier2) ==
    LET keys == GroupKeys(df)
        outliers(sym) ==
            LET grp == Group(df, sym)
                close == Values(df, grp, "Close")
                q1 == Quantile4(close, 1)
                q3 == Quantile4(close, 3)
                iqr == q3 - q1
            IN  SelectSeq(grp, LAMBDA l :
                    \/ 8 * Row(df, l)["Close"] < 2 * q1 - multiplier2 * iqr
                    \/ 8 * Row(df, l)["Close"] > 2 * q3 + multiplier2 * iqr)
    IN  Needs(df, {"Symbol", "Close"},
              Frame(Concat([k \in DOMAIN keys |-> outliers(keys[k])])))

\* the previous row taken in storage order, without sorting by Date
zero_vol_price_move_unsorted(df) ==
    SelectSeq(Index(df), LAMBDA l :
        /\ Row(df, l)["Volume"] = 0
        /\ \E m \in 0..(l - 1) :
              /\ Row(df, m)["Symbol"] = Row(df, l)["Symbol"]
              /\ \A n \in (m + 1)..(l - 1) : Row(df, n)["Symbol"] # Row(df, l)["Symbol"]
              /\ Row(df, m)["Close"] # Row(df, l)["Close"])

\* rows with Volume == 0 whose Close differs from the previous row of the
\* Symbol, in sorted order
zero_vol_price_move(df) ==
    SelectSeq(SortedIndex(df), LAMBDA l :
        LET prev == PrevInGroup(df, l)
        IN  /\ Row(df, l)["Volume"] = 0
            /\ prev # -1
            /\ Abs(Row(df, l)["Close"] - Row(df, prev)["Close"]) > 0)

\* one threshold for all symbols: factor times the median of every positive
\* volume of the dataset
extreme_volume_rows_global(df, factor) ==
    LET pos == SelectSeq(Index(df), LAMBDA l : Row(df, l)["Volume"] > 0)
    IN  IF pos = << >> THEN << >>
        ELSE SelectSeq(Index(df), LAMBDA l :
                2 * Row(df, l)["Volume"] > Median2(Values(df, pos, "Volume")) * factor)

\* per Symbol, the rows whose Volume exceeds factor times the median of the
\* positive volumes; a Symbol with no positive volume is skipped
extreme_volume_rows(df, factor) ==
    LET keys == GroupKeys(df)
        extreme(sym) ==
            LET grp == Group(df, sym)
                pos == SelectSeq(grp, LAMBDA l : Row(df, l)["Volume"] > 0)
            IN  IF pos = << >> THEN << >>
                ELSE SelectSeq(grp, LAMBDA l :
                        2 * Row(df, l)["Volume"] > Median2(Values(df, pos, "Volume")) * factor)
    IN  Concat([k \in DOMAIN keys |-> extreme(keys[k])])

VolumeColumns == {"Symbol", "Date", "Close", "Volume"}

volume_anomalies(df, factor) ==
    << Frame(zero_vol_price_move(df)), Frame(extreme_volume_rows(df, factor)) >>

EXPECTED_COLUMNS ==
    << <<"Date", "int64">>, <<"Symbol", "object">>, <<"Open", "int64">>,
       <<"High", "int64">>, <<"Low", "int64">>, <<"Close", "int64">>,
       <<"Volume", "int64">>, <<"Open Interest", "int64">> >>

\* a check that reports absent columns only
check_schema_missing_only(df) ==
    LET issue(e) ==
            IF e[1] \notin Columns(df)
            THEN << [field |-> e[1], expected |-> e[2], found |-> "<missing>", note |-> "column missing"] >>
            ELSE << >>
    IN  Report(Concat([k \in DOMAIN EXPECTED_COLUMNS |-> issue(EXPECTED_COLUMNS[k])]))

check_schema(df) ==
    LET issue(e) ==
            IF e[1] \notin Columns(df)
            THEN << [field |-> e[1], expected |-> e[2], found |-> "<missing>", note |-> "column missing"] >>
            ELSE IF df.dtypes[e[1]] # e[2]
            THEN << [field |-> e[1], expected |-> e[2], found |-> df.dtypes[e[1]], note |-> "dtype mismatch"] >>
            ELSE << >>
    IN  Report(Concat([k \in DOMAIN EXPECTED_COLUMNS |-> issue(EXPECTED_COLUMNS[k])]))

\* the median taken over the positive values only, as volume_anomalies does
check_oi_positive_median(df, spike_factor) ==
    IF "Open Interest" \notin Columns(df) THEN Frame(<< >>)
    ELSE LET pos == Where(df, LAMBDA r : r["Open Interest"] > 0)
             median2 == IF pos = << >> THEN 0 ELSE Median2(Values(df, pos, "Open Interest"))
         IN  Frame(Where(df, LAMBDA r : \/ r["Open Interest"] < 0
                                        \/ 2 * r["Open Interest"] > median2 * spike_factor))

check_oi(df, spike_factor) ==
    IF "Open Interest" \notin Columns(df) THEN Frame(<< >>)
    ELSE LET median2 == Median2(Values(df, Index(df), "Open Interest"))
         IN  Frame(Where(df, LAMBDA r : \/ r["Open Interest"] < 0
                                        \/ 2 * r["Open Interest"] > median2 * spike_factor))


(***************************************************************************)
(* The registry (src/src/quality_checks.py) and the dashboard's tables     *)
(* (src/app/utils/config.py, src/app/main.py).                             *)
(***************************************************************************)
\* the rule names, in the insertion order of the CHECK_FUNCTIONS dict
RULE_NAMES ==
    << "Duplicate row", "Missing date", "OHLC range violation", "Stagnant price",
       "Flat price anomaly", "Zero-volume with move", "Extreme volume outlier",
       "Day-over-day jump", "Absolute price bounds (IQR)", "High < Low inversion",
       "Negative numeric", "Schema", "Open interest" >>

Rules == Range(RULE_NAMES)

Tiers == <<"critical", "major", "minor">>

\* quality_checks.DEFAULT_SEVERITIES
qc_DEFAULT_SEVERITIES ==
    ("Duplicate row" :> "major") @@ ("Missing date" :> "minor") @@
    ("OHLC range violation" :> "critical") @@ ("Stagnant price" :> "major") @@
    ("Flat price anomaly" :> "minor") @@ ("Zero-volume with move" :> "major") @@
    ("Extreme volume outlier" :> "minor") @@ ("Day-over-day jump" :> "minor") @@
    ("Absolute price bounds (IQR)" :> "minor") @@ ("High < Low inversion" :> "critical") @@
    ("Negative numeric" :> "critical") @@ ("Schema" :> "critical") @@
    ("Open interest" :> "minor")

\* a table that has no entry for the last rule
DEFAULT_SEVERITIES_short ==
    [n \in DOMAIN qc_DEFAULT_SEVERITIES \ {"Open interest"} |-> qc_DEFAULT_SEVERITIES[n]]

\* app.utils.config.DEFAULT_SEVERITIES, the table main.py imports
DEFAULT_SEVERITIES ==
    ("Duplicate row" :> "critical") @@ ("Missing date" :> "major") @@
    ("OHLC range violation" :> "critical") @@ ("Stagnant price" :> "minor") @@
    ("Flat price anomaly" :> "major") @@ ("Zero-volume with move" :> "critical") @@
    ("Extreme volume outlier" :> "minor") @@ ("Day-over-day jump" :> "minor") @@
    ("Absolute price bounds (IQR)" :> "minor") @@ ("High < Low inversion" :> "critical") @@
    ("Negative numeric" :> "critical") @@ ("Schema" :> "critical") @@
    ("Open interest" :> "minor")

\* quality_checks.DESCRIPTIONS, which main.py reads as `descriptions` (the
\* texts in ASCII)
DESCRIPTIONS ==
    ("Duplicate row" :> "Ensure each (Date, Symbol) appears only once.") @@
    ("Missing date" :> "Compare a symbol's dates to the calendar to flag gaps.") @@
    ("OHLC range violation" :> "Flag rows where High < Low or Open/Close lie outside [Low, High].") @@
    ("Stagnant price" :> "Price flat and Volume = 0 (likely closed or no trades).") @@
    ("Flat price anomaly" :> "Price flat while Volume >= threshold (configurable).") @@
    ("Zero-volume with move" :> "Alert when price changes but Volume = 0.") @@
    ("Extreme volume outlier" :> "Volume exceeds N x median for a symbol (configurable).") @@
    ("Day-over-day jump" :> "Close changes more than threshold % between consecutive days.") @@
    ("Absolute price bounds (IQR)" :> "Prices that are unusually high or low for the symbol.") @@
    ("High < Low inversion" :> "Explicit test where reported High is less than Low.") @@
    ("Negative numeric" :> "Any negative price, volume, or open-interest fields.") @@
    ("Schema" :> "Assert expected columns & dtypes.") @@
    ("Open interest" :> "Flag negative OI or extreme spikes.")

\* the keys of the param_wrappers dict of main.py, in insertion order: the
\* options of the selection widget
param_wrapper_names ==
    << "Duplicate row", "Missing date", "OHLC range violation", "Stagnant price",
       "Flat price anomaly", "Zero-volume with move", "Extreme volume outlier",
       "Day-over-day jump", "Absolute price bounds (IQR)", "High < Low inversion",
       "Negative numeric", "Schema", "Open interest" >>

\* the default arguments of the rule functions: factor, threshold * 100,
\* multiplier * 2, min_volume, spike_factor
DefaultFactor == 10
DefaultThresholdPct == 50
DefaultMultiplier2 == 6
DefaultMinVolume == 1
DefaultSpikeFactor == 10

\* CHECK_FUNCTIONS[name](df): every rule with its default arguments
CHECK_FUNCTIONS(name, df) ==
    CASE name = "Duplicate row" -> duplicated_rows(df)
      [] name = "Missing date" -> missing_dates(df)
      [] name = "OHLC range violation" -> ohlc_integrity_violations(df)
      [] name = "Stagnant price" -> stagnant_price(df)
      [] name = "Flat price anomaly" -> flat_price_anomaly(df, DefaultMinVolume)
      [] name = "Zero-volume with move" ->
            Needs(df, VolumeColumns, volume_anomalies(df, DefaultFactor)[1])
      [] name = "Extreme volume outlier" ->
            Needs(df, VolumeColumns, volume_anomalies(df, DefaultFactor)[2])
      [] name = "Day-over-day jump" -> pct_change_outliers(df, DefaultThresholdPct)
      [] name = "Absolute price bounds (IQR)" -> iqr_price_outliers(df, DefaultMultiplier2)
      [] name = "High < Low inversion" -> high_low_inversion(df)
      [] name = "Negative numeric" -> negative_numeric(df)
      [] name = "Schema" -> check_schema(df)
      [] name = "Open interest" -> check_oi(df, DefaultSpikeFactor)

\* config._DEFAULTS; pct_change_threshold is kept times 100 and
\* iqr_multiplier times 2
_DEFAULTS ==
    ("volume_factor" :> 10) @@ ("pct_change_threshold" :> 50) @@
    ("iqr_multiplier" :> 6) @@ ("flat_price_min_volume" :> 1)

\* the options of the four sliders of the sidebar, in the same units
SliderOptions(key) ==
    CASE key = "volume_factor" -> {10, 20, 50, 100, 1000}
      [] key = "pct_change_threshold" -> {5, 10, 20, 30, 50}
      [] key = "iqr_multiplier" -> {2, 3, 4, 6}
      [] key = "flat_price_min_volume" -> {1, 100, 10000}

\* get_config(): the session's config, initialised from the defaults when
\* the session has none (an empty function stands for the absent key)
get_config(dq) == IF DOMAIN dq = {} THEN _DEFAULTS ELSE dq

\* set_config(**kwargs): the session's config updated with the given values
set_config(dq, kwargs) ==
    [k \in DOMAIN get_config(dq) |-> IF k \in DOMAIN kwargs THEN kwargs[k] ELSE get_config(dq)[k]]

\* param_wrappers[name](df): the rules with the slider values as arguments
param_wrappers(name, df, w) ==
    CASE name = "Flat price anomaly" -> flat_price_anomaly(df, w["flat_price_min_volume"])
      [] name = "Zero-volume with move" ->
            Needs(df, VolumeColumns, volume_anomalies(df, w["volume_factor"])[1])
      [] name = "Extreme volume outlier" ->
            Needs(df, VolumeColumns, volume_anomalies(df, w["volume_factor"])[2])
      [] name = "Day-over-day jump" -> pct_change_outliers(df, w["pct_change_threshold"])
      [] name = "Absolute price bounds (IQR)" -> iqr_price_outliers(df, w["iqr_multiplier"])
      [] OTHER -> CHECK_FUNCTIONS(name, df)

(***************************************************************************)
(* Flag matrix construction.                                               *)
(***************************************************************************)
\* df.index.isin(values): the labels of df that occur among the values
isin(df, values) == {l \in Range(Index(df)) : l \in Range(values)}

\* flags_df[checks].any(axis=1) in place of the sum: 1 when any of the
\* listed boolean columns is True
RowSum_any(df, flag, checks) ==
    [l \in Range(Index(df)) |->
        IF \E k \in DOMAIN checks : l \in flag[checks[k]] THEN 1 ELSE 0]

\* flags_df[checks].sum(axis=1): per label, the number of the listed
\* boolean columns that are True
RowSum(df, flag, checks) ==
    [l \in Range(Index(df)) |->
        SumSeq([k \in DOMAIN checks |-> IF l \in flag[checks[k]] THEN 1 ELSE 0])]

\* the count columns taken from the table imported at start-up instead of
\* the severity table in force
SeverityCounts_imported(df, flag, checks, severities) ==
    [sev \in Range(Tiers) |->
        RowSum(df, flag, SelectSeq(checks, LAMBDA n : DEFAULT_SEVERITIES[n] = sev))]

\* the three count columns: for each tier the row sum of the boolean
\* columns of the listed checks that the severity table maps to the tier
SeverityCounts(df, flag, checks, severities) ==
    [sev \in Range(Tiers) |->
        RowSum(df, flag, SelectSeq(checks, LAMBDA n : severities[n] = sev))]

\* the boolean columns of compute_flags: a rule that raised counts as an
\* empty index
batch_flag_cols(df, res) ==
    [n \in Rules |-> isin(df, IF res[n].kind = "frame" THEN res[n].index ELSE << >>)]

BatchMatrix(df, res, flag_cols) ==
    [by |-> "compute_flags", kind |-> "matrix", res |-> res, flag |-> flag_cols,
     count |-> SeverityCounts(df, flag_cols, RULE_NAMES, qc_DEFAULT_SEVERITIES)]

BatchFlags(df, res) == BatchMatrix(df, res, batch_flag_cols(df, res))

\* scripts/calc_flags_full.py compute_flags: every registered rule with its
\* defaults, a raising rule counted as no violation, severities taken from
\* quality_checks.DEFAULT_SEVERITIES
compute_flags(df) == BatchFlags(df, [n \in Rules |-> CHECK_FUNCTIONS(n, df)])

\* the severity cascade tested in the wrong order
_sev_level_major_first(critical_flags, major_flags, minor_flags) ==
    IF major_flags > 0 THEN "major"
    ELSE IF critical_flags > 0 THEN "critical"
    ELSE IF minor_flags > 0 THEN "minor"
    ELSE "none"

\* main.py _sev_level: the highest severity with a non-zero count
_sev_level(critical_flags, major_flags, minor_flags) ==
    IF critical_flags > 0 THEN "critical"
    ELSE IF major_flags > 0 THEN "major"
    ELSE IF minor_flags > 0 THEN "minor"
    ELSE "none"

\* the overview loop of main.py (lines 177-181) fails when a rule raises, or
\* when severity_masks[sev].loc[idx] = True is given a label the dataset
\* does not have
OverviewFails(df, res) ==
    \E n \in Rules :
        \/ res[n].kind # "frame"
        \/ ~(Range(res[n].index) \subseteq Range(Index(df)))

\* the boolean columns of the selected checks (main.py lines 195-202)
flag_columns(df, sel, res) == [n \in Range(sel) |-> isin(df, res[n].index)]

\* flags_df.all(axis=1) in place of any(axis=1)
union_mask_all(df, flag, count) ==
    {l \in Range(Index(df)) :
        /\ \A n \in DOMAIN flag : l \in flag[n]
        /\ \A sev \in Range(Tiers) : count[sev][l] # 0}

\* flags_df.any(axis=1): a boolean column is True or a count is non-zero
union_mask(df, flag, count) ==
    {l \in Range(Index(df)) :
        \/ \E n \in DOMAIN flag : l \in flag[n]
        \/ \E sev \in Range(Tiers) : count[sev][l] # 0}

\* the tables of one run (main.py lines 205-251); rows are named by their
\* labels in the dataset
DashboardTables(df, sel, res, flag, count, union) ==
    [by |-> "dashboard", kind |-> "matrix", res |-> res,
     total_counts |-> [n \in Rules |-> Len(res[n].index)],
     flag |-> flag,
     check_counts |-> [n \in Range(sel) |-> Len(res[n].index)],
     count |-> count,
     union_mask |-> union,
     flagged_rows |-> IF "AI_Explanation" \in Columns(df) THEN Index(df)
                      ELSE SelectSeq(Index(df), LAMBDA l : l \in union),
     cleaned_df |-> SelectSeq(Index(df), LAMBDA l : l \notin union),
     sev_level |-> [l \in Range(Index(df)) |->
                      _sev_level(count["critical"][l], count["major"][l], count["minor"][l])]]

DashboardCounts(df, sel, res, flag, count) ==
    DashboardTables(df, sel, res, flag, count, union_mask(df, flag, count))

DashboardFlags(df, sev_map, sel, res, flag) ==
    DashboardCounts(df, sel, res, flag, SeverityCounts(df, flag, sel, sev_map))

DashboardRun(df, sev_map, sel, res) ==
    IF OverviewFails(df, res)
    THEN [by |-> "dashboard", kind |-> "error"]
    ELSE DashboardFlags(df, sev_map, sel, res, flag_columns(df, sel, res))

\* one run of the dashboard script from the overview loop on (main.py lines
\* 151-251) with the severity map, slider values and selection of this run
Dashboard(df, sev_map, w, sel) ==
    DashboardRun(df, sev_map, sel, [n \in Rules |-> param_wrappers(n, df, w)])

(***************************************************************************)
(* The datasets the model is run on.                                       *)
(***************************************************************************)
Symbols == {"CL", "NG"}

\* integer Date keys (YYYYMMDD), consecutive days of one month
Dates == {20240100 + k : k \in 1..NumDates}

SessionDates == {20240101, 20240102}

\* the bar of the specification's end-to-end scenario on a given key
Bar(d, sym, o, h, l, c, v) ==
    ("Date" :> d) @@ ("Symbol" :> sym) @@ ("Open" :> o) @@ ("High" :> h) @@
    ("Low" :> l) @@ ("Close" :> c) @@ ("Volume" :> v) @@ ("Open Interest" :> 1000)

BaseBar(d, sym) == Bar(d, sym, 100, 101, 99, 100, 0)

\* key family: up to n rows of the same bar on any keys, in any order
KeyRows(dates, n) ==
    UNION {[1..k -> {BaseBar(d, sym) : d \in dates, sym \in Symbols}] : k \in 1..n}

\* price family: one row with every combination of small prices and a
\* volume of 0, 1 or 100
PriceRows ==
    { << Bar(20240101, "CL", o, h, l, c, v) >> :
        o \in 1..MaxPrice, h \in 1..MaxPrice, l \in 1..MaxPrice, c \in 1..MaxPrice,
        v \in {0, 1, 100} }

IntDtypes ==
    ("Date" :> "int64") @@ ("Symbol" :> "object") @@ ("Open" :> "int64") @@
    ("High" :> "int64") @@ ("Low" :> "int64") @@ ("Close" :> "int64") @@
    ("Volume" :> "int64") @@ ("Open Interest" :> "int64")

Without(f, col) == [c \in DOMAIN f \ {col} |-> f[c]]

\* the column layouts a CSV may have: the expected one, a float Volume,
\* float Open and Close, a missing Volume or Open Interest column, and the
\* AI-enriched layout with its two text columns
Shapes ==
    { IntDtypes,
      [IntDtypes EXCEPT !["Volume"] = "float64"],
      [IntDtypes EXCEPT !["Open"] = "float64", !["Close"] = "float64"],
      Without(IntDtypes, "Volume"),
      Without(IntDtypes, "Open Interest"),
      IntDtypes @@ ("AI_Explanation" :> "object") @@ ("AI_Trend" :> "object") }

\* pd.read_csv of a file with the given rows and column layout
read_csv(rows, dtypes) ==
    [rows |-> [p \in DOMAIN rows |->
                [c \in DOMAIN dtypes |-> IF c \in DOMAIN rows[p] THEN rows[p][c] ELSE "text"]],
     dtypes |-> dtypes]

\* the datasets of the dashboard sessions and batch runs
SessionDatasets ==
    {read_csv(rows, dtypes) : rows \in KeyRows(SessionDates, MaxSessionRows), dtypes \in Shapes}
    \cup {read_csv(rows, IntDtypes) : rows \in PriceRows}

\* the datasets the rule library alone is run on
RuleDatasets == {read_csv(rows, IntDtypes) : rows \in KeyRows(Dates, MaxRows) \cup PriceRows}

(***************************************************************************)
(* The older rule library of the pages (src/src/eda_utils.py), the frames  *)
(* the rules write to, and the datasets and arguments of single calls.     *)
(***************************************************************************)
\* src/src/eda_utils.py volume_anomalies, the version the pages call: the
\* threshold of a Symbol is factor times the median of all its volumes
eu_extreme_volume_rows(df, factor) ==
    LET keys == GroupKeys(df)
        extreme(sym) ==
            LET grp == Group(df, sym)
            IN  SelectSeq(grp, LAMBDA l :
                    2 * Row(df, l)["Volume"] > Median2(Values(df, grp, "Volume")) * factor)
    IN  Concat([k \in DOMAIN keys |-> extreme(keys[k])])

eu_volume_anomalies(df, factor) ==
    << Frame(zero_vol_price_move(df)), Frame(eu_extreme_volume_rows(df, factor)) >>

\* df.sort_values(["Symbol", "Date"]).copy(): a new frame with the rows in
\* sorted order
sort_values_copy(df) ==
    [rows |-> [k \in 1..Len(df.rows) |-> Row(df, SortedIndex(df)[k])], dtypes |-> df.dtypes]

\* frame[col] = <computed float series>
set_column(frame, col) ==
    [rows |-> [k \in DOMAIN frame.rows |-> frame.rows[k] @@ (col :> "computed")],
     dtypes |-> frame.dtypes @@ (col :> "float64")]

\* a rule that sorts in place and writes its working column to its argument
sorted_in_place(df, col) ==
    [df |-> set_column(sort_values_copy(df), col),
     df_sorted |-> set_column(sort_values_copy(df), col)]

\* the frames pct_change_outliers and volume_anomalies hold once they have
\* written their working column: the argument and the sorted copy
sorted_locals(df, col) ==
    [df |-> df, df_sorted |-> set_column(sort_values_copy(df), col)]

\* rules that sort the caller's frame itself instead of a copy
frame_after_sorted(func, df) ==
    CASE func \in {"pct_change_outliers", "volume_anomalies", "eu.volume_anomalies"}
            /\ {"Symbol", "Date", "Close"} \subseteq Columns(df) ->
            sort_values_copy(df)
      [] OTHER -> df

\* the caller's frame after a rule function has run on it; a rule that
\* raises on an absent column does so before it writes anything
frame_after(func, df) ==
    CASE func = "pct_change_outliers" /\ {"Symbol", "Date", "Close"} \subseteq Columns(df) ->
            sorted_locals(df, "close_pct_change").df
      [] func \in {"volume_anomalies", "eu.volume_anomalies"}
            /\ {"Symbol", "Date", "Close"} \subseteq Columns(df) ->
            sorted_locals(df, "close_diff").df
      [] OTHER -> df

\* the caller's frame after compute_flags: the registered rules run on it in
\* turn, and the flag columns go to a frame of their own
RECURSIVE frame_after_all(_, _)
frame_after_all(funcs, df) ==
    IF funcs = << >> THEN df
    ELSE frame_after_all(Tail(funcs), frame_after(Head(funcs), df))

RegisteredFunctions ==
    << "duplicated_rows", "missing_dates", "ohlc_integrity_violations", "stagnant_price",
       "flat_price_anomaly", "volume_anomalies", "volume_anomalies", "pct_change_outliers",
       "iqr_price_outliers", "high_low_inversion", "negative_numeric", "check_schema",
       "check_oi" >>

\* the function behind a rule name (the values of CHECK_FUNCTIONS)
function_of(name) ==
    RegisteredFunctions[CHOOSE k \in DOMAIN RULE_NAMES : RULE_NAMES[k] = name]

\* the loop over the selected checks (main.py lines 195-202): every wrapper
\* is handed the same frame object df_view, so each rule runs on the frame
\* as the rules called before it left it, and its mask is taken against
\* the index of that frame
RECURSIVE run_selected(_, _, _)
run_selected(df, w, names) ==
    IF names = << >> THEN [frame |-> df, res |-> << >>, flag |-> << >>]
    ELSE LET name == Head(names)
             res == param_wrappers(name, df, w)
             after == frame_after(function_of(name), df)
             rest == run_selected(after, w, Tail(names))
         IN  [frame |-> rest.frame,
              res |-> (name :> res) @@ rest.res,
              flag |-> (name :> isin(after, res.index)) @@ rest.flag]

\* the flag matrix of one evaluation (main.py lines 195-214): the boolean
\* columns of the selected checks in the given order and the three count
\* columns; a rule that raises ends the run
FlagMatrix(df, sev_map, w, names) ==
    LET run == run_selected(df, w, names)
    IN  IF \E n \in Range(names) : run.res[n].kind # "frame"
        THEN [kind |-> "error"]
        ELSE [kind |-> "matrix", rows |-> Len(run.frame.rows), flag |-> run.flag,
              count |-> SeverityCounts(run.frame, run.flag, names, sev_map)]

\* the selections whose order is varied: the lists of up to MaxSelected
\* distinct checks
Selections ==
    UNION {{q \in [1..k -> Rules] : \A i, j \in 1..k : i # j => q[i] # q[j]} : k \in 1..MaxSelected}

\* df[col] = df[col].astype(int): KeyError on an absent column, ValueError
\* on a column of non-numeric text, otherwise the column becomes int64
astype_int(df, col) ==
    IF col \notin Columns(df) THEN [kind |-> "KeyError"]
    ELSE IF df.dtypes[col] = "object" THEN [kind |-> "ValueError"]
    ELSE [kind |-> "data", frame |-> [df EXCEPT !.dtypes[col] = "int64"]]

\* result.to_csv(out, index=False) of pd.concat([df, flags_df], axis=1): the
\* rows of df with the boolean columns and the count columns beside them
to_csv(df, matrix) ==
    [by |-> "main", kind |-> "csv", frame |-> df, flag |-> matrix.flag, count |-> matrix.count]

\* scripts/calc_flags_full.py main: the CSV is read, Date is cast to int,
\* compute_flags runs and the result is written; an exception of the cast
\* ends the command before anything is written
main(df) ==
    LET cast == astype_int(df, "Date")
    IN  IF cast.kind # "data" THEN [by |-> "main", kind |-> "error", error |-> cast.kind]
        ELSE to_csv(frame_after_all(RegisteredFunctions, cast.frame), compute_flags(cast.frame))

(***************************************************************************)
(* The enrichment script (src/scripts/enrich_full_dataset.py).             *)
(***************************************************************************)
\* grp.sort_values("Date").reset_index(): the rows of one Symbol ordered by
\* Date, each with its label in the dataset as the column "index"; the rows
\* of a short group with equal dates keep their order
grp_sorted(df, sym) ==
    LET grp == Group(df, sym)
        before(a, b) ==
            \/ Row(df, a)["Date"] < Row(df, b)["Date"]
            \/ (Row(df, a)["Date"] = Row(df, b)["Date"] /\ a < b)
        rank(a) == Cardinality({b \in Range(grp) : before(b, a)}) + 1
    IN  [k \in DOMAIN grp |->
            LET l == CHOOSE a \in Range(grp) : rank(a) = k
            IN  Row(df, l) @@ ("index" :> l)]

\* build_context(df_sym, idx, window=7): the rows of the group whose Date
\* lies in [current_date - window, current_date]
build_context(df_sym, idx, window) ==
    LET current_date == df_sym[idx]["Date"]
    IN  SelectSeq(df_sym, LAMBDA r : /\ r["Date"] >= current_date - window
                                     /\ r["Date"] <= current_date)

\* explain_row: the two completions, each named by the prompt it answers:
\* the row and the context rows for the explanation, the context rows for
\* the trend
explain_row(row, context_rows) ==
    << [row |-> row, context |-> context_rows], [context |-> context_rows] >>

\* the rows in the order the loops of main visit them: Symbol by Symbol in
\* sorted key order, each group by Date, every row with its two completions
Visited(df) ==
    LET keys == GroupKeys(df)
        of(sym) ==
            LET sorted == grp_sorted(df, sym)
            IN  [idx \in DOMAIN sorted |->
                    explain_row(sorted[idx], build_context(sorted, idx, 7))]
    IN  Concat([k \in DOMAIN keys |-> of(keys[k])])

\* the master list and the buffer after the loop body has run on the given
\* completions: a completion goes to the buffer, and the buffer is flushed
\* to the master list whenever the number processed is a multiple of
\* batch_size
RECURSIVE Buffered(_, _, _, _, _)
Buffered(items, master, buffer, processed, batch_size) ==
    IF items = << >> THEN [master |-> master, buffer |-> buffer]
    ELSE IF (processed + 1) % batch_size = 0
    THEN Buffered(Tail(items), master \o Append(buffer, Head(items)), << >>,
                  processed + 1, batch_size)
    ELSE Buffered(Tail(items), master, Append(buffer, Head(items)),
                  processed + 1, batch_size)

\* main(input_path, out_path, batch_size): Date is cast to int, every row is
\* explained, the lists are assigned to the two new columns by position and
\* the frame is written
enrich_full_dataset(df, batch_size) ==
    LET cast == astype_int(df, "Date")
    IN  IF cast.kind # "data" THEN [by |-> "enrich", kind |-> "error", error |-> cast.kind]
        ELSE IF "Symbol" \notin Columns(df) THEN [by |-> "enrich", kind |-> "error", error |-> "KeyError"]
        ELSE LET visited == Visited(cast.frame)
                 lists == Buffered(visited, << >>, << >>, 0, batch_size)
                 done == lists.master \o lists.buffer
             IN  [by |-> "enrich", kind |-> "csv", frame |-> cast.frame,
                  AI_Explanation |-> [p \in DOMAIN done |-> done[p][1]],
                  AI_Trend |-> [p \in DOMAIN done |-> done[p][2]]]

\* series family: flat bars of both symbols on two dates with a Close of
\* 100 or 110 and a traded volume
Quote(d, sym, c, v, oi) ==
    ("Date" :> d) @@ ("Symbol" :> sym) @@ ("Open" :> c) @@ ("High" :> c) @@
    ("Low" :> c) @@ ("Close" :> c) @@ ("Volume" :> v) @@ ("Open Interest" :> oi)

ClosePalette == {Quote(d, sym, c, 5, 1000) : d \in SessionDates, sym \in Symbols, c \in {100, 110}}

\* a bar that moved to 110 without volume, or traded at 100
MovePalette ==
    {Quote(d, sym, 100, 5, 1000) : d \in SessionDates, sym \in Symbols}
    \cup {Quote(d, sym, 110, 0, 1000) : d \in SessionDates, sym \in Symbols}

VolumePalette == {Quote(20240101, sym, 100, v, 1000) : sym \in Symbols, v \in {0, 5, 100}}

InterestPalette == {Quote(20240101, sym, 100, 5, oi) : sym \in Symbols, oi \in {-1, 0, 10, 1000}}

\* up to n rows of a palette, in any order
RowsOf(palette, n) == UNION {[1..k -> palette] : k \in 1..n}

\* the layouts in which at most two expected columns are absent or, for a
\* numeric column, float64
Layouts ==
    LET cols == DOMAIN IntDtypes
        variant(c, how) ==
            IF how = "absent" THEN Without(IntDtypes, c) ELSE [IntDtypes EXCEPT ![c] = "float64"]
        two(c, d, how1, how2) ==
            IF how2 = "absent" THEN Without(variant(c, how1), d)
            ELSE [variant(c, how1) EXCEPT ![d] = "float64"]
        hows == {"absent", "float64"}
        ok(c, how) == c # "Symbol" \/ how = "absent"
    IN  {IntDtypes}
        \cup {variant(q[1], q[2]) : q \in {r \in cols \X hows : ok(r[1], r[2])}}
        \cup {two(q[1], q[2], q[3], q[4]) : q \in
                {r \in cols \X cols \X hows \X hows :
                    r[1] # r[2] /\ ok(r[1], r[3]) /\ ok(r[2], r[4])}}

\* the datasets the rule functions are called on
LibraryDatasets ==
    {read_csv(rows, IntDtypes) :
        rows \in RowsOf(ClosePalette, MaxRows) \cup RowsOf(MovePalette, MaxRows)
                 \cup RowsOf(VolumePalette, MaxRows) \cup RowsOf(InterestPalette, MaxRows)
                 \cup PriceRows}
    \cup {read_csv(<<BaseBar(20240101, "CL")>>, dtypes) : dtypes \in Layouts}

\* the arguments the callers pass: IQR multipliers times 2, volume and
\* open-interest factors, minimum volumes, percent thresholds
Multipliers2 == {0, 1, 2, 3, 6}
Factors == {2, 10}
MinVolumes == {-1, 0, 1, 100}
ThresholdsPct == {5, 10, 50}

\* the --batch arguments of the enrichment script
BatchSizes == {1, 2, 3, 100}

\* the datasets of the evaluations: rows in any storage order
EvaluateDatasets == {read_csv(rows, IntDtypes) : rows \in RowsOf(MovePalette, MaxSessionRows)}

(***************************************************************************)
(* Loading the dataset (quality_checks.load_data, eda_utils.load_data,     *)
(* app/utils/caching.py, app/main.py, app/pages).                          *)
(***************************************************************************)
\* st.session_state without a "data" key, and pd.DataFrame()
Unset == [unset |-> TRUE]

EmptyFrame == [rows |-> << >>, dtypes |-> << >>]

\* DEFAULT_LOCATIONS of both libraries, and the candidates of main.py
DEFAULT_LOCATIONS == <<"app/data/raw/futures_dataset.csv">>

candidates ==
    << "app/data/processed/enriched_futures_data.csv",
       "app/data/processed/1full_enriched_dataset.csv" >>

\* the first path of a list that exists on disk, or "" when none does
RECURSIVE FirstFound(_, _)
FirstFound(paths, disk) ==
    IF paths = << >> THEN ""
    ELSE IF Head(paths) \in DOMAIN disk THEN Head(paths)
    ELSE FirstFound(Tail(paths), disk)

\* load_data(csv_path): csv_path is "None" or "UploadedFile", the two
\* arguments the application passes; Path() of an uploaded file object
\* raises TypeError
load_data(disk, csv_path) ==
    IF csv_path # "None" THEN [kind |-> "TypeError"]
    ELSE IF FirstFound(DEFAULT_LOCATIONS, disk) # ""
    THEN [kind |-> "data", frame |-> disk[FirstFound(DEFAULT_LOCATIONS, disk)]]
    ELSE [kind |-> "FileNotFoundError"]

\* src/src/eda_utils.py load_data, the loader of the pages
eu_load_data(disk, csv_path) ==
    IF csv_path # "None" THEN [kind |-> "TypeError"]
    ELSE IF FirstFound(DEFAULT_LOCATIONS, disk) # ""
    THEN [kind |-> "data", frame |-> disk[FirstFound(DEFAULT_LOCATIONS, disk)]]
    ELSE [kind |-> "FileNotFoundError"]

\* app/utils/caching.py load_data: FileNotFoundError becomes a warning and
\* an empty DataFrame
cached_load_data(disk, path) ==
    IF load_data(disk, path).kind = "FileNotFoundError"
    THEN [kind |-> "data", frame |-> EmptyFrame]
    ELSE load_data(disk, path)

\* main.py lines 26-53: the value of st.session_state["data"] after the
\* sidebar's load section, or the error that ends the run
main_data(session, disk, uploaded) ==
    IF uploaded # "None" THEN cached_load_data(disk, uploaded)
    ELSE IF session # Unset THEN [kind |-> "data", frame |-> session]
    ELSE IF FirstFound(candidates, disk) # ""
    THEN [kind |-> "data", frame |-> disk[FirstFound(candidates, disk)]]
    ELSE cached_load_data(disk, "None")

\* the dataset a page works on (line 10 of each page)
page_data(session, disk) ==
    IF session # Unset THEN [kind |-> "data", frame |-> session]
    ELSE eu_load_data(disk, "None")

\* eda_utils.symbol_coverage and the heatmap component group by Date and
\* Symbol and read Close
symbol_coverage(frame) == Needs(frame, {"Date", "Symbol", "Close"}, Frame(<< >>))

\* the results a page computes from its dataset before it draws anything
page_body(page, frame) ==
    CASE page = 1 -> {symbol_coverage(frame), duplicated_rows(frame)}
      [] page = 2 -> {ohlc_integrity_violations(frame)}
      [] page = 3 -> {Needs(frame, FlatlineColumns, Frame(flatline_rows(frame)[2]))}
      [] page = 4 -> {pct_change_outliers(frame, DefaultThresholdPct),
                      iqr_price_outliers(frame, DefaultMultiplier2),
                      Needs(frame, VolumeColumns, eu_volume_anomalies(frame, DefaultFactor)[2])}

Pages == 1..4

\* the CSV files a deployment may hold: each path absent, or one of three
\* small datasets
FileContents ==
    {read_csv(<<BaseBar(d, "CL")>>, IntDtypes) : d \in SessionDates}
    \cup {read_csv(<<BaseBar(20240101, "CL")>>, Without(IntDtypes, "Volume"))}

Paths == Range(DEFAULT_LOCATIONS) \cup Range(candidates)

FileSystems == UNION {[P -> FileContents] : P \in SUBSET Paths}

(***************************************************************************)
(* The chat section of main.py (lines 379-473) and the vector store        *)
(* (src/app/services/vector_db.py).                                        *)
(***************************************************************************)
\* the script gets to the chat section when the flag matrix was built and
\* st.columns(min(4, len(selected))) was given at least one column
chat_reached(result, sel) == result.kind = "matrix" /\ sel # << >>

SystemMessage ==
    [role |-> "system",
     content |-> "You are a helpful data quality assistant for futures datasets."]

\* the history after lines 390-393: created with the system message when
\* the session has none
chat_history(msgs) == IF msgs = << >> THEN << SystemMessage >> ELSE msgs

\* vector_db.query: an empty dict when Chroma is not installed, the
\* collection's answer when it is, or the exception of the collection (the
\* embedding request failed, the store cannot be opened)
query(store) ==
    CASE store = "unavailable" -> [kind |-> "result", rag |-> << >>]
      [] store = "failing" -> [kind |-> "raises"]
      [] store = "ready" ->
            [kind |-> "result",
             rag |-> [metadatas |-> << << [Symbol |-> "CL", Date |-> 20240101] >> >>,
                      distances |-> << << 0 >> >>]]

\* rag.get(key, [[]])[0]
rag_get(rag, key) == IF key \in DOMAIN rag THEN rag[key][1] ELSE << >>

\* a name of the script: bound to a value, or bound by no statement of
\* this run
Bound(value) == [bound |-> TRUE, value |-> value]

Unbound == [bound |-> FALSE, value |-> << >>]

\* the names metas and dists after the try statement of lines 404-410: the
\* handler binds metas and shows the warning
retrieved(answer) ==
    IF answer.kind = "raises"
    THEN [metas |-> Bound(<< >>), dists |-> Unbound, warning |-> TRUE]
    ELSE [metas |-> Bound(rag_get(answer.rag, "metadatas")),
          dists |-> Bound(rag_get(answer.rag, "distances")), warning |-> FALSE]

\* reply_main (lines 447-456): the completion, the text of its error, or
\* the notice that no key is set
reply_main(api) ==
    CASE api = "no key" -> "OpenAI key not set."
      [] api = "fails" -> "Error"
      [] api = "answers" -> "completion"

\* the chat section on a submitted prompt (lines 400-468): reading the
\* unbound name dists raises NameError and ends the run; otherwise the
\* context and the sources are built from the pairs of zip(metas, dists)
\* and the user and assistant messages are appended
chat_turn(msgs, user_prompt, answer, api) ==
    LET names == retrieved(answer)
    IN  IF ~names.metas.bound \/ ~names.dists.bound
        THEN [kind |-> "NameError", warning |-> names.warning, chat_msgs |-> msgs]
        ELSE LET n == IF Len(names.metas.value) < Len(names.dists.value)
                      THEN Len(names.metas.value) ELSE Len(names.dists.value)
                 src_refs == [k \in 1..n |-> names.metas.value[k]]
             IN  [kind |-> "replied", warning |-> names.warning,
                  context |-> src_refs, sources |-> src_refs,
                  chat_msgs |-> msgs \o
                      << [role |-> "user", content |-> user_prompt],
                         [role |-> "assistant",
                          content |-> [reply |-> reply_main(api), sources |-> src_refs]] >>]

(***************************************************************************)
(* The OpenAI gateway (src/app/services/openai_service.py).  An API is     *)
(* given by the outcomes of its first requests; every later request        *)
(* fails.                                                                  *)
(***************************************************************************)
\* stop=stop_after_attempt(3), the stop condition of every decorator
stop_after_attempt == 3

Outcomes == {"ok", "fail"}

ApiBehaviours == UNION {[1..n -> Outcomes] : n \in 0..MaxOutcomes}

\* client.chat.completions.create / client.embeddings.create: the request
\* number requests + 1 is issued and returns or raises
create(api, requests) ==
    LET k == requests + 1
        outcome == IF k \in DOMAIN api THEN api[k] ELSE "fail"
    IN  [kind |-> IF outcome = "ok" THEN "returned" ELSE "raised", requests |-> k]

\* what @retry does with the outcome of attempt attempt_number: the value
\* is returned, a raised exception ends in RetryError when the stop
\* condition holds (reraise is not set), and in another attempt otherwise
retry_action(attempt, attempt_number) ==
    CASE attempt.kind = "returned" -> "return"
      [] attempt_number >= stop_after_attempt -> "stop"
      [] OTHER -> "retry"

\* the decorated body of chat, embed and complete: the request inside
\* try/except, the exception logged and raised again
RECURSIVE retry_create(_, _, _)
retry_create(api, requests, attempt_number) ==
    LET attempt == create(api, requests)
        action == retry_action(attempt, attempt_number)
    IN  CASE action = "return" -> attempt
          [] action = "stop" -> [kind |-> "RetryError", requests |-> attempt.requests]
          [] action = "retry" -> retry_create(api, attempt.requests, attempt_number + 1)

chat(api) == retry_create(api, 0, 1)

\* embed returns [] for no texts without a request
embed(api, texts) ==
    IF texts = << >> THEN [kind |-> "returned", requests |-> 0]
    ELSE retry_create(api, 0, 1)

complete(api, requests) == retry_create(api, requests, 1)

\* the decorated body of ai_explain and ai_trend: the prompt template is
\* read (read_text raises when the file is missing) and complete is called;
\* whatever complete raises is an exception of this attempt
RECURSIVE retry_complete(_, _, _, _)
retry_complete(api, template, requests, attempt_number) ==
    LET attempt == IF ~template THEN [kind |-> "raised", requests |-> requests]
                   ELSE complete(api, requests)
        action == retry_action(attempt, attempt_number)
    IN  CASE action = "return" -> attempt
          [] action = "stop" -> [kind |-> "RetryError", requests |-> attempt.requests]
          [] action = "retry" ->
                retry_complete(api, template, attempt.requests, attempt_number + 1)

ai_explain(api, template) == retry_complete(api, template, 0, 1)

ai_trend(api, template) == retry_complete(api, template, 0, 1)

(***************************************************************************)
(* The module-level tables and the sessions' copies of them.               *)
(***************************************************************************)
\* a session dict that is the module's own object: a write to it is a
\* write to the module's table
alias_then_write(table, writes) ==
    [module |-> [k \in DOMAIN table |-> IF k \in DOMAIN writes THEN writes[k] ELSE table[k]],
     session |-> [k \in DOMAIN table |-> IF k \in DOMAIN writes THEN writes[k] ELSE table[k]]]

\* _DEFAULTS.copy() / DEFAULT_SEVERITIES.copy() (config.py line 19, main.py
\* line 119) and the writes that follow (cfg.update, severity_map[check] =
\* sel): the session's dict is an object of its own, so the writes reach
\* the session's dict and not the module's table
copy_then_write(table, writes) ==
    [module |-> table,
     session |-> [k \in DOMAIN table |-> IF k \in DOMAIN writes THEN writes[k] ELSE table[k]]]

\* the module's tables after one run of the script has written the slider
\* values and the severities to the session's dicts
module_after(tables, kwargs, severities) ==
    [_DEFAULTS |-> copy_then_write(tables._DEFAULTS, kwargs).module,
     DEFAULT_SEVERITIES |-> copy_then_write(tables.DEFAULT_SEVERITIES, severities).module]

\* the datasets of the sessions of one process
ProcessDatasets == {read_csv(<<BaseBar(d, "CL")>>, IntDtypes) : d \in SessionDates}

(***************************************************************************)
(* State.                                                                  *)
(***************************************************************************)
VARIABLES
    df,            \* the dataset (st.session_state["data"] / the input CSV)
    severity_map,  \* st.session_state["severity_map"]; << >> while absent
    dq_config,     \* st.session_state["dq_config"]; << >> while absent
    selected,      \* the value of the "Select quality checks to run" widget
    edits,         \* widget interactions so far in this session
    out,           \* the result of the last evaluation
    files,         \* the dataset files on disk: path -> content
    module,        \* the module-level tables of app/utils/config.py, as they
                   \* stand in the running process
    sessions,      \* the sessions that have ended: their last config and
                   \* severity map
    chat_msgs      \* st.session_state.chat_msgs; << >> while absent

vars == <<df, severity_map, dq_config, selected, edits, out, files, module, sessions, chat_msgs>>

Fresh ==
    /\ severity_map = << >>
    /\ dq_config = << >>
    /\ selected = << >>
    /\ edits = 0
    /\ out = [by |-> "none", kind |-> "none"]
    /\ chat_msgs = << >>

\* a process that has just imported app/utils/config.py
Imported ==
    /\ module = [_DEFAULTS |-> _DEFAULTS, DEFAULT_SEVERITIES |-> DEFAULT_SEVERITIES]
    /\ sessions = << >>

Init == df \in SessionDatasets /\ Fresh /\ files = << >> /\ Imported

InitRules == df \in RuleDatasets /\ Fresh /\ files = << >> /\ Imported

(***************************************************************************)
(* Operations.                                                             *)
(***************************************************************************)
\* the batch command: compute_flags on the CSV as read
ComputeFlags ==
    /\ out.by = "none"
    /\ out' = compute_flags(df)
    /\ UNCHANGED <<df, severity_map, dq_config, selected, edits, files, module, sessions, chat_msgs>>

\* the severity map after the sidebar loop (main.py lines 118-124): seeded
\* from the imported defaults when absent, then every check set to the
\* value of its selectbox, which is the stored one unless the user changed it
SeverityLoop(changed) ==
    LET seeded == IF DOMAIN severity_map = {} THEN DEFAULT_SEVERITIES ELSE severity_map
    IN  [check \in DOMAIN DEFAULT_SEVERITIES |->
            IF check \in DOMAIN changed THEN changed[check]
            ELSE IF check \in DOMAIN seeded THEN seeded[check]
            ELSE DEFAULT_SEVERITIES[check]]

\* one run of the script of main.py: the sliders are read and stored with
\* set_config, the severity map is updated, and the overview loop and the
\* flag matrix are computed; when the overview loop fails the run stops
\* there, before the selection widget is drawn
RunScript(frame, sliders, sev_changed, sel) ==
    /\ dq_config' = set_config(dq_config, sliders)
    /\ severity_map' = SeverityLoop(sev_changed)
    /\ module' = module_after(module, sliders, severity_map')
    /\ out' = Dashboard(frame, severity_map', dq_config', sel)
    /\ selected' = IF out'.kind = "matrix" THEN sel ELSE selected

Script(sliders, sev_changed, sel) ==
    /\ RunScript(df, sliders, sev_changed, sel)
    /\ chat_msgs' = IF chat_reached(out', selected') THEN chat_history(chat_msgs) ELSE chat_msgs
    /\ UNCHANGED <<df, files, sessions>>

\* the first run of a session: every widget shows its default
Start ==
    /\ out.by = "none"
    /\ Script(get_config(dq_config), << >>, RULE_NAMES)
    /\ UNCHANGED edits

\* the selection a rerun sees: the widget's value, or its default (every
\* rule) while no run has drawn it yet
Selection == IF selected = << >> /\ out.kind # "matrix" THEN RULE_NAMES ELSE selected

\* the user picks another severity for one check; the script reruns
SetSeverity(check, sel) ==
    /\ out.by = "dashboard"
    /\ edits < MaxEdits
    /\ sel # severity_map[check]
    /\ Script(get_config(dq_config), check :> sel, Selection)
    /\ edits' = edits + 1

\* the user moves one of the four sliders; the script reruns
MoveSlider(key, value) ==
    /\ out.by = "dashboard"
    /\ edits < MaxEdits
    /\ value # dq_config[key]
    /\ Script([get_config(dq_config) EXCEPT ![key] = value], << >>, Selection)
    /\ edits' = edits + 1

\* the user removes a check from the selection, or adds it back; the widget
\* exists only after a run that got past the overview loop
ToggleCheck(name) ==
    /\ out.by = "dashboard"
    /\ out.kind = "matrix"
    /\ edits < MaxEdits
    /\ Script(get_config(dq_config), << >>,
              IF name \in Range(selected)
              THEN SelectSeq(selected, LAMBDA n : n # name)
              ELSE Append(selected, name))
    /\ edits' = edits + 1

Next ==
    \/ ComputeFlags
    \/ Start
    \/ \E check \in Rules, sel \in Range(Tiers) : SetSeverity(check, sel)
    \/ \E key \in DOMAIN _DEFAULTS : \E value \in SliderOptions(key) : MoveSlider(key, value)
    \/ \E name \in Rules : ToggleCheck(name)

Spec == Init /\ [][Next]_vars

\* the rule library alone: every registered rule is applied to a dataset
\* by the batch aggregator
NextRules == ComputeFlags

SpecRules == InitRules /\ [][NextRules]_vars


(***************************************************************************)
(* Several sessions of one process, one after the other.                   *)
(***************************************************************************)
InitSessions == df \in ProcessDatasets /\ Fresh /\ files = << >> /\ Imported

\* the session ends and another browser session opens the dashboard: its
\* st.session_state is empty, the imported modules are those of the process
NewSession ==
    /\ out.by = "dashboard"
    /\ Len(sessions) < MaxSessions - 1
    /\ sessions' = Append(sessions, [dq_config |-> dq_config, severity_map |-> severity_map])
    /\ severity_map' = << >>
    /\ dq_config' = << >>
    /\ selected' = << >>
    /\ edits' = 0
    /\ out' = [by |-> "none", kind |-> "none"]
    /\ chat_msgs' = << >>
    /\ UNCHANGED <<df, files, module>>

NextSessions ==
    \/ Start
    \/ \E check \in Rules, sel \in Range(Tiers) : SetSeverity(check, sel)
    \/ \E key \in DOMAIN _DEFAULTS : \E value \in SliderOptions(key) : MoveSlider(key, value)
    \/ NewSession

SpecSessions == InitSessions /\ [][NextSessions]_vars

(***************************************************************************)
(* The chat of a dashboard session.                                        *)
(***************************************************************************)
InitChat == df \in ProcessDatasets /\ Fresh /\ files = << >> /\ Imported

Prompts == {"Which rows are flagged?", "Why is CL flat?"}

\* the user submits a prompt: the script reruns and its chat section
\* handles the prompt
Ask(user_prompt, store, api) ==
    LET sel == Selection
        result == Dashboard(df, SeverityLoop(<< >>), set_config(dq_config, get_config(dq_config)), sel)
        turn == chat_turn(chat_history(chat_msgs), user_prompt, query(store), api)
    IN  /\ out.by = "dashboard"
        /\ out.kind \in {"matrix", "chat"}
        /\ chat_reached(result, sel)
        /\ Cardinality({k \in DOMAIN chat_msgs : chat_msgs[k].role = "user"}) < MaxTurns
        /\ dq_config' = set_config(dq_config, get_config(dq_config))
        /\ severity_map' = SeverityLoop(<< >>)
        /\ module' = module_after(module, get_config(dq_config), severity_map')
        /\ selected' = sel
        /\ out' = [by |-> "dashboard", kind |-> "chat", turn |-> turn.kind,
                   warning |-> turn.warning, store |-> store, before |-> chat_msgs,
                   context |-> IF turn.kind = "replied" THEN turn.context ELSE << >>,
                   sources |-> IF turn.kind = "replied" THEN turn.sources ELSE << >>]
        /\ chat_msgs' = turn.chat_msgs
        /\ UNCHANGED <<df, edits, files, sessions>>

NextChat ==
    \/ Start
    \/ \E user_prompt \in Prompts, store \in {"unavailable", "failing", "ready"},
          api \in {"no key", "fails", "answers"} : Ask(user_prompt, store, api)

SpecChat == InitChat /\ [][NextChat]_vars

(***************************************************************************)
(* Calls of the OpenAI helpers.                                            *)
(***************************************************************************)
InitOpenAI == df \in ProcessDatasets /\ Fresh /\ files = << >> /\ Imported

Called(helper, api, result) ==
    /\ out' = [by |-> "openai", helper |-> helper, api |-> api,
               kind |-> result.kind, requests |-> result.requests]
    /\ UNCHANGED <<df, severity_map, dq_config, selected, edits, files, module,
                   sessions, chat_msgs>>

CallChat(api) == Called("chat", api, chat(api))

CallEmbed(api, texts) == Called("embed", api, embed(api, texts))

CallComplete(api) == Called("complete", api, complete(api, 0))

CallAiExplain(api, template) == Called("ai_explain", api, ai_explain(api, template))

CallAiTrend(api, template) == Called("ai_trend", api, ai_trend(api, template))

NextOpenAI ==
    \/ \E api \in ApiBehaviours : CallChat(api)
    \/ \E api \in ApiBehaviours, texts \in {<< >>, << "CL 20240101" >>} : CallEmbed(api, texts)
    \/ \E api \in ApiBehaviours : CallComplete(api)
    \/ \E api \in ApiBehaviours, template \in BOOLEAN : CallAiExplain(api, template)
    \/ \E api \in ApiBehaviours, template \in BOOLEAN : CallAiTrend(api, template)

SpecOpenAI == InitOpenAI /\ [][NextOpenAI]_vars

(***************************************************************************)
(* The rule functions called one at a time with caller-supplied arguments. *)
(***************************************************************************)
InitLibrary == df \in LibraryDatasets /\ Fresh /\ files = << >> /\ Imported

\* one call of a rule function: its result, and the caller's frame after it
Call(func, arg, res) ==
    /\ out.by = "none"
    /\ out' = [by |-> func, kind |-> "result", arg |-> arg, res |-> res]
    /\ df' = frame_after(func, df)
    /\ UNCHANGED <<severity_map, dq_config, selected, edits, files, module, sessions, chat_msgs>>

CallIqr(multiplier2) == Call("iqr_price_outliers", multiplier2, iqr_price_outliers(df, multiplier2))

\* volume_anomalies returns a pair of frames, or raises on an absent column
CallVolume(factor) ==
    Call("volume_anomalies", factor,
         Needs(df, VolumeColumns, [kind |-> "frames", frames |-> volume_anomalies(df, factor)]))

CallEdaVolume(factor) ==
    Call("eu.volume_anomalies", factor,
         Needs(df, VolumeColumns, [kind |-> "frames", frames |-> eu_volume_anomalies(df, factor)]))

CallFlat(min_volume) == Call("flat_price_anomaly", min_volume, flat_price_anomaly(df, min_volume))

CallPct(threshold_pct) == Call("pct_change_outliers", threshold_pct, pct_change_outliers(df, threshold_pct))

CallOi(spike_factor) == Call("check_oi", spike_factor, check_oi(df, spike_factor))

CallSchema == Call("check_schema", 0, check_schema(df))

\* the batch aggregator on the same datasets
CallComputeFlags ==
    /\ out.by = "none"
    /\ out' = compute_flags(df)
    /\ df' = frame_after_all(RegisteredFunctions, df)
    /\ UNCHANGED <<severity_map, dq_config, selected, edits, files, module, sessions, chat_msgs>>

\* the batch command on the same datasets
CallMain ==
    /\ out.by = "none"
    /\ out' = main(df)
    /\ UNCHANGED <<df, severity_map, dq_config, selected, edits, files, module, sessions, chat_msgs>>

\* the enrichment script on the same datasets
CallEnrich(batch_size) ==
    /\ out.by = "none"
    /\ out' = enrich_full_dataset(df, batch_size)
    /\ UNCHANGED <<df, severity_map, dq_config, selected, edits, files, module, sessions, chat_msgs>>

NextLibrary ==
    \/ \E multiplier2 \in Multipliers2 : CallIqr(multiplier2)
    \/ \E factor \in Factors : CallVolume(factor)
    \/ \E factor \in Factors : CallEdaVolume(factor)
    \/ \E min_volume \in MinVolumes : CallFlat(min_volume)
    \/ \E threshold_pct \in ThresholdsPct : CallPct(threshold_pct)
    \/ \E spike_factor \in Factors : CallOi(spike_factor)
    \/ CallSchema
    \/ CallComputeFlags
    \/ CallMain
    \/ \E batch_size \in BatchSizes : CallEnrich(batch_size)

SpecLibrary == InitLibrary /\ [][NextLibrary]_vars

(***************************************************************************)
(* Evaluations of a selection in a chosen order.                           *)
(***************************************************************************)
InitEvaluate == df \in EvaluateDatasets /\ Fresh /\ files = << >> /\ Imported

\* one run of the script in which the selection widget holds the checks
\* `sel`, in the order the user picked them, and the severity selectboxes
\* hold the overrides `sev_changed`
Evaluate(sel, sev_changed) ==
    /\ out.by = "none"
    /\ dq_config' = set_config(dq_config, get_config(dq_config))
    /\ severity_map' = SeverityLoop(sev_changed)
    /\ selected' = sel
    /\ out' = [by |-> "evaluate", matrix |-> FlagMatrix(df, severity_map', dq_config', sel)]
                 @@ [kind |-> "evaluated"]
    /\ module' = module_after(module, get_config(dq_config), severity_map')
    /\ chat_msgs' = IF chat_reached(out'.matrix, sel) THEN chat_history(chat_msgs) ELSE chat_msgs
    /\ UNCHANGED <<df, edits, files, sessions>>

NextEvaluate ==
    \E sel \in Selections :
        \E sev_changed \in {<< >>} \cup {sel[1] :> t : t \in Range(Tiers)} :
            Evaluate(sel, sev_changed)

SpecEvaluate == InitEvaluate /\ [][NextEvaluate]_vars

(***************************************************************************)
(* The entry points of the application in a session that starts without a  *)
(* dataset.                                                                *)
(***************************************************************************)
InitLoad == df = Unset /\ Fresh /\ files \in FileSystems /\ Imported

\* a run of main.py: the load section, the "No data loaded." stop on an
\* empty dataset, and otherwise the rest of the script
OpenMain(uploaded) ==
    LET data == main_data(df, files, uploaded)
    IN  /\ IF data.kind # "data"
           THEN /\ out' = [by |-> "dashboard", kind |-> "error", uploaded |-> uploaded # "None"]
                /\ UNCHANGED <<df, severity_map, dq_config, selected, module, chat_msgs>>
           ELSE /\ df' = data.frame
                /\ IF Len(data.frame.rows) = 0
                   THEN /\ out' = [by |-> "dashboard", kind |-> "warning", uploaded |-> uploaded # "None"]
                        /\ UNCHANGED <<severity_map, dq_config, selected, module, chat_msgs>>
                   ELSE /\ RunScript(data.frame, get_config(dq_config), << >>, Selection)
                        /\ chat_msgs' = IF chat_reached(out', selected')
                                        THEN chat_history(chat_msgs) ELSE chat_msgs
        /\ UNCHANGED <<edits, files, sessions>>

\* a run of one of the four pages
OpenPage(page) ==
    LET data == page_data(df, files)
    IN  /\ out' = [by |-> "page", page |-> page, uploaded |-> FALSE,
                   kind |-> IF data.kind # "data" THEN "error"
                            ELSE IF \E r \in page_body(page, data.frame) : r.kind = "KeyError"
                            THEN "error" ELSE "page"]
        /\ UNCHANGED <<df, severity_map, dq_config, selected, edits, files, module, sessions, chat_msgs>>

NextLoad ==
    \/ \E uploaded \in {"None", "UploadedFile"} : OpenMain(uploaded)
    \/ \E page \in Pages : OpenPage(page)

SpecLoad == InitLoad /\ [][NextLoad]_vars

(***************************************************************************)
(* Properties of the rule library, checked under SpecRules.                *)
(***************************************************************************)
Labels == Range(Index(df))

\* the number of rows of the dataset that share the key of the row `l`
KeyCount(l) ==
    Cardinality({m \in Labels : /\ Row(df, m)["Date"] = Row(df, l)["Date"]
                                /\ Row(df, m)["Symbol"] = Row(df, l)["Symbol"]})

\* the reorderings of the dataset: position i of Permute(p) holds row p[i]
Perms == {p \in [1..Len(df.rows) -> 1..Len(df.rows)] : \A i, j \in DOMAIN p : p[i] = p[j] => i = j}

Permute(p) == [rows |-> [i \in 1..Len(df.rows) |-> df.rows[p[i]]], dtypes |-> df.dtypes]

\* C1: duplicated_rows returns exactly the rows whose (Date, Symbol) key
\* occurs at least twice in the dataset, every copy included and no row
\* with a unique key, and on any reordering of the dataset it returns the
\* same rows.
C1_DuplicatedRowsExact ==
    out.by = "compute_flags" =>
        LET r == out.res["Duplicate row"]
            dups == {l \in Labels : KeyCount(l) >= 2}
        IN  /\ r.kind = "frame"
            /\ Range(r.index) = dups
            /\ \A p \in Perms :
                  Range(duplicated_rows(Permute(p)).index)
                      = {i - 1 : i \in {j \in DOMAIN p : (p[j] - 1) \in dups}}

\* a dataset of three rows whose first and last rows share a key
C1_Witness ==
    /\ out.by = "compute_flags"
    /\ Len(df.rows) = 3
    /\ Range(out.res["Duplicate row"].index) = {0, 2}

\* the (Symbol, Date key) pairs the daily calendar from the smallest to the
\* largest Date key lacks
ExpectedMissing ==
    LET dates == {Row(df, l)["Date"] : l \in Labels}
        lo == CHOOSE d \in dates : \A e \in dates : d <= e
        hi == CHOOSE d \in dates : \A e \in dates : e <= d
    IN  {<<sym, d>> \in {Row(df, l)["Symbol"] : l \in Labels} \X (lo..hi) :
            ~\E l \in Labels : Row(df, l)["Symbol"] = sym /\ Row(df, l)["Date"] = d}

\* the YYYYMMDD key of the calendar day `day` days after 1970-01-01 (within
\* January 1970)
DateKey(day) == 19700101 + day

\* C5: missing_dates returns exactly the (Symbol, Date) pairs of the daily
\* calendar between the smallest and the largest Date of the dataset on
\* which the symbol has no row.
C5_MissingDatesExact ==
    out.by = "compute_flags" =>
        LET r == out.res["Missing date"]
        IN  /\ r.kind = "frame"
            /\ {<<r.records[k].Symbol, DateKey(r.records[k].MissingDate)>> : k \in DOMAIN r.records}
                  = ExpectedMissing

\* C10: every row returned by high_low_inversion is returned by
\* ohlc_integrity_violations.
C10_InversionSubset ==
    out.by = "compute_flags" =>
        /\ out.res["High < Low inversion"].kind = "frame"
        /\ out.res["OHLC range violation"].kind = "frame"
        /\ Range(out.res["High < Low inversion"].index)
              \subseteq Range(out.res["OHLC range violation"].index)

\* a row with High < Low has been evaluated and returned
C10_Witness ==
    /\ out.by = "compute_flags"
    /\ out.res["High < Low inversion"].index # << >>

(***************************************************************************)
(* Properties of the aggregators, checked under Spec.                      *)
(***************************************************************************)
\* the dataset of the end-to-end scenario: the same bar twice
Scenario == read_csv(<<BaseBar(20240101, "CL"), BaseBar(20240101, "CL")>>, IntDtypes)

\* an evaluation of every registered rule with default parameters and
\* default severities has produced a flag matrix
FullDefaultRun ==
    /\ out.kind = "matrix"
    /\ out.by = "compute_flags" \/ (out.by = "dashboard" /\ edits = 0)

\* C2: on the scenario dataset the full rule set with defaults flags both
\* rows under "Duplicate row", counts one critical flag on each row and
\* leaves every other rule's flag False.
C2_ScenarioFlags ==
    (df = Scenario /\ FullDefaultRun) =>
        /\ out.flag["Duplicate row"] = {0, 1}
        /\ \A l \in {0, 1} : out.count["critical"][l] = 1
        /\ \A n \in Rules \ {"Duplicate row"} : out.flag[n] = {}

\* the rules that raise on the dataset with the arguments the evaluation
\* that produced `out` gave them
Raising ==
    {n \in Rules :
        (IF out.by = "dashboard" THEN param_wrappers(n, df, dq_config)
         ELSE CHECK_FUNCTIONS(n, df)).kind = "KeyError"}

\* the rules the evaluation that produced `out` was asked to run
Selected == IF out.by = "dashboard" THEN Range(selected) ELSE Rules

\* the severity policy of the evaluation that produced `out`
Policy == IF out.by = "dashboard" THEN severity_map ELSE qc_DEFAULT_SEVERITIES

\* C3: when a rule raises during an evaluation, the aggregator still
\* returns a flag matrix in which the failing rule's column is False on
\* every row.
C3_RaisingRuleTolerated ==
    (out.by # "none" /\ Raising # {}) =>
        /\ out.kind = "matrix"
        /\ \A n \in Raising \cap DOMAIN out.flag : out.flag[n] = {}

\* C4: the "Missing date" and "Schema" columns of a flag matrix are False
\* on every row of the dataset: the rows of their reports are not rows of
\* the dataset.
C4_SyntheticRulesFlagNoRow ==
    out.kind = "matrix" =>
        \A n \in {"Missing date", "Schema"} \cap DOMAIN out.flag : out.flag[n] = {}

\* C6: in a flag matrix, for every row and tier, the count column of the
\* tier is the number of selected rules the severity policy maps to the
\* tier whose boolean column is True at the row.
C6_SeverityCounts ==
    out.kind = "matrix" =>
        /\ DOMAIN out.flag = Selected
        /\ \A sev \in Range(Tiers), l \in Labels :
              out.count[sev][l]
                  = Cardinality({n \in Selected : Policy[n] = sev /\ l \in out.flag[n]})

\* after an override a flagged row is counted in the new tier of the
\* overridden rule and no longer in its default tier
C6_Witness ==
    /\ out.by = "dashboard"
    /\ out.kind = "matrix"
    /\ edits = 1
    /\ \E n \in Range(selected), l \in Labels :
          /\ severity_map[n] # DEFAULT_SEVERITIES[n]
          /\ l \in out.flag[n]
          /\ out.count[severity_map[n]][l] = 1
          /\ out.count[DEFAULT_SEVERITIES[n]][l] = 0

\* C7: before any override the severity policy of the dashboard is the
\* table of default severities of the check registry.
C7_PolicySeededFromRegistry ==
    (out.by = "dashboard" /\ edits = 0) => severity_map = qc_DEFAULT_SEVERITIES

\* C8: the worst severity of a row is critical when critical_flags > 0,
\* else major when major_flags > 0, else minor when minor_flags > 0, else
\* none; counts 0/2/5 give major and counts 0/0/0 give none.
C8_WorstSeverity ==
    /\ _sev_level(0, 2, 5) = "major"
    /\ _sev_level(0, 0, 0) = "none"
    /\ (out.by = "dashboard" /\ out.kind = "matrix") =>
          \A l \in Labels :
              LET c == out.count["critical"][l]
                  m == out.count["major"][l]
                  n == out.count["minor"][l]
              IN  /\ c > 0 => out.sev_level[l] = "critical"
                  /\ (c = 0 /\ m > 0) => out.sev_level[l] = "major"
                  /\ (c = 0 /\ m = 0 /\ n > 0) => out.sev_level[l] = "minor"
                  /\ (c = 0 /\ m = 0 /\ n = 0) => out.sev_level[l] = "none"

\* a row with major and minor flags and no critical flag has been
\* classified as major
C8_Witness ==
    /\ out.by = "dashboard"
    /\ out.kind = "matrix"
    /\ \E l \in Labels :
          /\ out.count["critical"][l] = 0
          /\ out.count["major"][l] > 0
          /\ out.count["minor"][l] > 0
          /\ out.sev_level[l] = "major"

\* the rows of the dataset whose three counts are all zero
ZeroCountRows ==
    {l \in Labels : out.count["critical"][l] + out.count["major"][l] + out.count["minor"][l] = 0}

C25_CountsPartition ==
    out.kind = "matrix" =>
        \A l \in Range(Index(df)) :
            out.count["critical"][l] + out.count["major"][l] + out.count["minor"][l]
                = Cardinality({n \in DOMAIN out.flag : l \in out.flag[n]})

\* after a severity override, a row is flagged by two checks at once
C25_Witness ==
    /\ out.by = "dashboard"
    /\ out.kind = "matrix"
    /\ severity_map # DEFAULT_SEVERITIES
    /\ \E l \in Range(Index(df)) :
          Cardinality({n \in DOMAIN out.flag : l \in out.flag[n]}) >= 2

\* C26: the five registry tables name the same rules, every severity is
\* one of the three tiers, and in every run the names the script looks up
\* (the wrappers' names in the severity map, the severity map's names among
\* the descriptions, the selected names among the wrappers and in the
\* severity map) are present.
C26_RegistryConsistent ==
    /\ DOMAIN DESCRIPTIONS = Range(RULE_NAMES)
    /\ DOMAIN qc_DEFAULT_SEVERITIES = Range(RULE_NAMES)
    /\ DOMAIN DEFAULT_SEVERITIES = Range(RULE_NAMES)
    /\ Range(param_wrapper_names) = Range(RULE_NAMES)
    /\ \A n \in DOMAIN qc_DEFAULT_SEVERITIES : qc_DEFAULT_SEVERITIES[n] \in Range(Tiers)
    /\ \A n \in DOMAIN DEFAULT_SEVERITIES : DEFAULT_SEVERITIES[n] \in Range(Tiers)
    /\ out.by = "dashboard" =>
          /\ Range(param_wrapper_names) \subseteq DOMAIN severity_map
          /\ DOMAIN severity_map \subseteq DOMAIN DESCRIPTIONS
          /\ \A n \in DOMAIN severity_map : severity_map[n] \in Range(Tiers)
          /\ Range(selected) \subseteq Range(param_wrapper_names) \cap DOMAIN severity_map
    /\ out.by = "compute_flags" => DOMAIN out.flag \subseteq DOMAIN qc_DEFAULT_SEVERITIES

\* a run in which every rule was selected, after the user changed a severity
C26_Witness ==
    /\ out.by = "dashboard"
    /\ out.kind = "matrix"
    /\ Range(selected) = Range(param_wrapper_names)
    /\ edits = 1
    /\ severity_map # DEFAULT_SEVERITIES

(***************************************************************************)
(* Properties of the configuration, checked under SpecSessions.            *)
(***************************************************************************)
\* the keys on which a config differs from the defaults
Changed(table, defaults) == {k \in DOMAIN defaults : table[k] # defaults[k]}

C11_IqrMonotone ==
    (out.by = "iqr_price_outliers" /\ out.res.kind = "frame") =>
        \A k \in Multipliers2 :
            /\ k > out.arg =>
                  Range(iqr_price_outliers(df, k).index) \subseteq Range(out.res.index)
            /\ k < out.arg =>
                  Range(out.res.index) \subseteq Range(iqr_price_outliers(df, k).index)

\* a row is an outlier at multiplier 0.5 and no longer one at multiplier 3
C11_Witness ==
    /\ out.by = "iqr_price_outliers"
    /\ out.arg = 1
    /\ out.res.index # << >>
    /\ iqr_price_outliers(df, 6).index = << >>

\* the strictly positive volumes of a Symbol
PositiveVolumes(sym) ==
    {Row(df, l)["Volume"] : l \in {m \in Labels : /\ Row(df, m)["Symbol"] = sym
                                                  /\ Row(df, m)["Volume"] > 0}}

\* C12: the extreme-volume result of volume_anomalies (either library)
\* holds no row of a Symbol whose positive volumes are all one value, and
\* no row of a Symbol without a positive volume.
C12_EqualVolumesNotExtreme ==
    (out.by \in {"volume_anomalies", "eu.volume_anomalies"} /\ out.res.kind = "frames") =>
        \A l \in Range(out.res.frames[2].index) :
            Cardinality(PositiveVolumes(Row(df, l)["Symbol"])) >= 2

\* C16: flat_price_anomaly returns exactly the rows with four identical
\* prices and a Volume of at least min_volume, whatever min_volume is.
C16_FlatPriceExact ==
    (out.by = "flat_price_anomaly" /\ out.res.kind = "frame") =>
        Range(out.res.index)
            = {l \in Labels : /\ Row(df, l)["Open"] = Row(df, l)["High"]
                              /\ Row(df, l)["Open"] = Row(df, l)["Low"]
                              /\ Row(df, l)["Open"] = Row(df, l)["Close"]
                              /\ Row(df, l)["Volume"] >= out.arg}

\* row m comes before row l when each Symbol's rows are ordered by Date
\* (rows of one date in their stored order)
Earlier(m, l) ==
    /\ Row(df, m)["Symbol"] = Row(df, l)["Symbol"]
    /\ \/ Row(df, m)["Date"] < Row(df, l)["Date"]
       \/ (Row(df, m)["Date"] = Row(df, l)["Date"] /\ m < l)

\* the prior observation of row l: the latest earlier row of its Symbol
Prior(l) == {m \in Labels : Earlier(m, l) /\ ~\E n \in Labels : Earlier(m, n) /\ Earlier(n, l)}

\* C17: the zero-volume-with-move result holds exactly the rows with
\* Volume 0 whose Close differs from the Close of the prior observation of
\* the Symbol in Date order; the first row of a Symbol is never in it.
C17_ZeroVolumeMoveExact ==
    (out.by \in {"volume_anomalies", "eu.volume_anomalies"} /\ out.res.kind = "frames") =>
        Range(out.res.frames[1].index)
            = {l \in Labels : /\ Row(df, l)["Volume"] = 0
                              /\ \E m \in Prior(l) : Row(df, m)["Close"] # Row(df, l)["Close"]}

\* a later row stored before its prior observation is returned
C17_Witness ==
    /\ out.by = "volume_anomalies"
    /\ out.res.kind = "frames"
    /\ \E l \in Range(out.res.frames[1].index) : \E m \in Prior(l) : m > l

\* C18: pct_change_outliers returns exactly the rows whose Close differs
\* from the Close of the prior observation of the Symbol by more than
\* threshold times the absolute prior Close; a change of exactly the
\* threshold is not returned, nor is the first row of a Symbol.
C18_PctChangeExact ==
    (out.by = "pct_change_outliers" /\ out.res.kind = "frame") =>
        Range(out.res.index)
            = {l \in Labels : \E m \in Prior(l) :
                  Abs(Row(df, l)["Close"] - Row(df, m)["Close"]) * 100
                      > out.arg * Abs(Row(df, m)["Close"])}

\* the expected columns that are absent or whose dtype is not the expected one
BadColumns == {c \in DOMAIN IntDtypes : c \notin Columns(df) \/ df.dtypes[c] # IntDtypes[c]}

KthInterest(k) ==
    CHOOSE v \in {Row(df, l)["Open Interest"] : l \in Labels} :
        /\ Cardinality({l \in Labels : Row(df, l)["Open Interest"] < v}) < k
        /\ k <= Cardinality({l \in Labels : Row(df, l)["Open Interest"] <= v})

\* twice the median of the whole Open Interest column
TwiceMedianInterest ==
    LET n == Cardinality(Labels)
    IN  KthInterest((n + 1) \div 2) + KthInterest(n \div 2 + 1)

\* C20: check_oi returns exactly the rows whose Open Interest is negative
\* or greater than spike_factor times the median of the whole column, and
\* an empty result, without raising, when the column is absent.
C20_OpenInterestExact ==
    out.by = "check_oi" =>
        /\ out.res.kind = "frame"
        /\ "Open Interest" \notin Columns(df) => out.res.index = << >>
        /\ "Open Interest" \in Columns(df) =>
              Range(out.res.index)
                  = {l \in Labels : \/ Row(df, l)["Open Interest"] < 0
                                    \/ 2 * Row(df, l)["Open Interest"] > out.arg * TwiceMedianInterest}

\* a positive Open Interest is returned as a spike over a median of 0
C20_Witness ==
    /\ out.by = "check_oi"
    /\ "Open Interest" \in Columns(df)
    /\ TwiceMedianInterest = 0
    /\ \E l \in Range(out.res.index) : Row(df, l)["Open Interest"] > 0

\* C15: no call of a rule function and no flag-matrix construction changes
\* the dataset it is given: rows, row order, columns and values stay.
C15_InputUnchanged == [][df' = df]_vars

\* pct_change_outliers has run on a dataset stored out of its sorted order
C15_Witness ==
    /\ out.by = "pct_change_outliers"
    /\ out.res.kind = "frame"
    /\ SortedIndex(df) # Index(df)

\* C21: the batch command writes, for every CSV it is given, one row per
\* input row with the original columns unchanged, one boolean column per
\* registered rule, computed with the rule's default parameters, and the
\* three count columns.
C21_BatchOutput ==
    out.by = "main" =>
        /\ out.kind = "csv"
        /\ out.frame.rows = df.rows
        /\ Columns(out.frame) = Columns(df)
        /\ DOMAIN out.flag = Rules
        /\ \A n \in Rules :
              out.flag[n] = isin(df, param_wrappers(n, astype_int(df, "Date").frame, _DEFAULTS).index)
        /\ DOMAIN out.count = Range(Tiers)
        /\ \A sev \in Range(Tiers) : DOMAIN out.count[sev] = Range(Index(df))

\* the labels of a returned frame follow the row order of the dataset
InInputOrder(index) == \A i, j \in DOMAIN index : i < j => index[i] < index[j]

\* the results of the rules that return rows of the dataset
RowLevelResults ==
    IF out.by = "compute_flags"
    THEN {out.res[n] : n \in Rules \ {"Missing date", "Schema"}}
    ELSE IF out.by \in {"volume_anomalies", "eu.volume_anomalies"}
    THEN IF out.res.kind = "frames" THEN Range(out.res.frames) ELSE {}
    ELSE IF out.by \in {"iqr_price_outliers", "flat_price_anomaly", "pct_change_outliers", "check_oi"}
    THEN {out.res}
    ELSE {}

\* C23: the flag matrix has one row per row of the dataset, in the
\* dataset's order, and every rule that returns rows of the dataset
\* returns them in the order in which they appear in the dataset.
C23_InputOrder ==
    /\ out.by = "compute_flags" =>
          /\ \A n \in Rules : out.flag[n] \subseteq Range(Index(df))
          /\ \A sev \in Range(Tiers) : DOMAIN out.count[sev] = Range(Index(df))
    /\ \A res \in RowLevelResults : res.kind = "frame" => InInputOrder(res.index)

\* the dataset reduced to the rows of one Symbol, in their order
OnlySymbol(sym) ==
    [rows |-> SelectSeq(df.rows, LAMBDA r : r["Symbol"] = sym), dtypes |-> df.dtypes]

\* the rows of a Symbol that a result flags, as positions among the rows of
\* that Symbol
FlaggedWithin(sym, index) ==
    LET grp == SelectSeq(Index(df), LAMBDA l : Row(df, l)["Symbol"] = sym)
    IN  {k \in DOMAIN grp : grp[k] \in Range(index)}

\* the positions a result flags in a dataset that holds one Symbol only
FlaggedAlone(index) == {l + 1 : l \in Range(index)}

SymbolsPresent ==
    IF "Symbol" \in Columns(df) THEN {df.rows[p]["Symbol"] : p \in DOMAIN df.rows} ELSE {}

\* C24: for the IQR, extreme-volume, day-over-day-jump and zero-volume-move
\* rules, the rows of a Symbol that are flagged are those flagged when the
\* rows of every other Symbol are removed from the dataset.
C24_SymbolsIndependent ==
    \A sym \in SymbolsPresent :
        /\ (out.by = "iqr_price_outliers" /\ out.res.kind = "frame") =>
              FlaggedWithin(sym, out.res.index)
                = FlaggedAlone(iqr_price_outliers(OnlySymbol(sym), out.arg).index)
        /\ (out.by = "pct_change_outliers" /\ out.res.kind = "frame") =>
              FlaggedWithin(sym, out.res.index)
                = FlaggedAlone(pct_change_outliers(OnlySymbol(sym), out.arg).index)
        /\ (out.by = "volume_anomalies" /\ out.res.kind = "frames") =>
              \A k \in 1..2 :
                  FlaggedWithin(sym, out.res.frames[k].index)
                    = FlaggedAlone(volume_anomalies(OnlySymbol(sym), out.arg)[k].index)

\* a rule flagged a row of one Symbol in a dataset that also holds rows of
\* the other Symbol
C24_Witness ==
    /\ SymbolsPresent = Symbols
    /\ \/ /\ out.by \in {"iqr_price_outliers", "pct_change_outliers"}
          /\ out.res.kind = "frame"
          /\ out.res.index # << >>
       \/ /\ out.by = "volume_anomalies"
          /\ out.res.kind = "frames"
          /\ out.res.frames[1].index # << >>

\* C28: when the enrichment script has finished, the output has one
\* AI_Explanation and one AI_Trend per input row, and those stored on a row
\* were generated from that row and from context rows of its own Symbol
\* that include it.
C28_EnrichedRowsAligned ==
    (out.by = "enrich" /\ out.kind = "csv") =>
        /\ Len(out.AI_Explanation) = Len(df.rows)
        /\ Len(out.AI_Trend) = Len(df.rows)
        /\ \A p \in DOMAIN df.rows :
              LET own == df.rows[p] @@ ("index" :> p - 1)
              IN  /\ out.AI_Explanation[p].row = own
                  /\ out.AI_Trend[p].context = out.AI_Explanation[p].context
                  /\ \E k \in DOMAIN out.AI_Trend[p].context : out.AI_Trend[p].context[k] = own
                  /\ \A k \in DOMAIN out.AI_Trend[p].context :
                        out.AI_Trend[p].context[k]["Symbol"] = own["Symbol"]

(***************************************************************************)
(* Properties of the evaluation order, checked under SpecEvaluate.         *)
(***************************************************************************)
\* the orders of a selection
Orders(sel) ==
    {q \in [DOMAIN sel -> Range(sel)] : \A i, j \in DOMAIN sel : i # j => q[i] # q[j]}

\* C22: the flag matrix of a selection is the same in whatever order the
\* selected checks are evaluated: every boolean column and every count
\* column is identical.
C22_OrderIndependent ==
    out.by = "evaluate" =>
        \A q \in Orders(selected) :
            FlagMatrix(df, severity_map, dq_config, q) = out.matrix

\* two checks were evaluated on a dataset whose rows are not in sorted
\* order, and both flagged a row
C22_Witness ==
    /\ out.by = "evaluate"
    /\ Len(selected) = 2
    /\ SortedIndex(df) # Index(df)
    /\ out.matrix.kind = "matrix"
    /\ \A n \in Range(selected) : out.matrix.flag[n] # {}

(***************************************************************************)
(* Properties of the chat, checked under SpecChat.                         *)
(***************************************************************************)
\* C29: a chat turn in which the vector-store query raises still ends
\* without an error: the warning is shown, the context and the sources are
\* empty, and one user message and one assistant message are appended to
\* the history.
C29_RetrievalFailureTolerated ==
    (out.kind = "chat" /\ out.store = "failing") =>
        /\ out.turn = "replied"
        /\ out.warning
        /\ out.context = << >>
        /\ out.sources = << >>
        /\ Len(chat_msgs) = Len(out.before) + 2
        /\ chat_msgs[Len(chat_msgs) - 1].role = "user"
        /\ chat_msgs[Len(chat_msgs)].role = "assistant"

(***************************************************************************)
(* Properties of the OpenAI helpers, checked under SpecOpenAI.             *)
(***************************************************************************)
\* C30: a helper whose API request fails every time issues at most 3
\* requests and ends by raising the failure to its caller.
C30_AtMostThreeAttempts ==
    (/\ out.by = "openai"
     /\ out.requests > 0
     /\ \A k \in DOMAIN out.api : out.api[k] = "fail") =>
        /\ out.requests <= stop_after_attempt
        /\ out.kind = "RetryError"

(***************************************************************************)
(* Properties of the entry points, checked under SpecLoad.                 *)
(***************************************************************************)
\* C14: when no dataset path is given and no default dataset exists, every
\* entry point (the dashboard and each page) ends in a warning state
\* instead of an error.
C14_LoadFailureWarns ==
    (DOMAIN files = {} /\ out.by \in {"dashboard", "page"}) =>
        (~out.uploaded => out.kind = "warning")

====
